---- MODULE Spec2Model ----
(***************************************************************************)
(* Statement ingestion and reconciliation pipeline: description            *)
(* normaliser, transaction hasher, fallback verifier, validation           *)
(* orchestration, document ingestion, aggregator sync and the in-memory    *)
(* storage adapter.                                                        *)
(*                                                                         *)
(* Conventions.  Text that the code inspects character by character        *)
(* (descriptions, currency codes) is a sequence of one-character strings;  *)
(* opaque identifiers (account ids, statement ids, dates) are strings.     *)
(* Amounts are integers counting thousandths of a currency unit, so that   *)
(* the two-decimal rendering of the hasher and the tolerance of the        *)
(* verifier are both exact.  A JavaScript Map is a function whose DOMAIN   *)
(* is the set of keys present.  SHA-256 is taken to be injective: a digest *)
(* is represented by the tuple of the serialised fields it is computed     *)
(* from.                                                                   *)
(***************************************************************************)
EXTENDS Integers, Sequences, FiniteSets, TLC

VARIABLES
  accounts,       \* InMemoryStorageAdapter.accounts: account id -> Account
  statements,     \* InMemoryStorageAdapter.statements: statement id -> Statement
  transactions,   \* InMemoryStorageAdapter.transactions: dedupe hash -> Transaction
  verifications,  \* InMemoryStorageAdapter.verifications: statement id -> report
  advice,         \* InMemoryStorageAdapter.advice: recommendation id -> recommendation
  cache,          \* CachedFxConverter.cache: currency pair -> rate entry
  config,         \* the verifier's construction: transport present, fallback enabled
  tasks,          \* the calls in flight: task id -> position and local values
  calls,          \* number of calls made so far
  last            \* the call made last: its input and its outcome

vars ==
  <<accounts, statements, transactions, verifications, advice, cache, config, tasks, calls,
    last>>

stores == <<accounts, statements, transactions, verifications, advice, cache>>

-----------------------------------------------------------------------------
(* Generic helpers: Map operations and folds.                              *)

EmptyMap == [k \in {} |-> k]

MapSet(m, k, v) == [x \in (DOMAIN m) \cup {k} |-> IF x = k THEN v ELSE m[x]]

MapDeleteAll(m, ks) == [x \in (DOMAIN m) \ ks |-> m[x]]

MapHas(m, k) == k \in DOMAIN m

MapValues(m) == {m[k] : k \in DOMAIN m}

Range(s) == {s[i] : i \in 1..Len(s)}

Abs(x) == IF x < 0 THEN -x ELSE x

Undefined == "undefined"

-----------------------------------------------------------------------------
(* Characters.                                                             *)

UpperChars == <<"A","B","C","D","E","F","G","H","I","J","K","L","M",
                "N","O","P","Q","R","S","T","U","V","W","X","Y","Z">>

LowerChars == <<"a","b","c","d","e","f","g","h","i","j","k","l","m",
                "n","o","p","q","r","s","t","u","v","w","x","y","z">>

DigitChars == {"0","1","2","3","4","5","6","7","8","9"}

SpaceChars == {" ", "\t", "\n"}

Letters == 1..Len(UpperChars)

LowerOf == [c \in Range(UpperChars) |-> LowerChars[CHOOSE i \in Letters : UpperChars[i] = c]]

UpperOf == [c \in Range(LowerChars) |-> UpperChars[CHOOSE i \in Letters : LowerChars[i] = c]]

ToLowerChar(c) == IF c \in DOMAIN LowerOf THEN LowerOf[c] ELSE c

ToUpperChar(c) == IF c \in DOMAIN UpperOf THEN UpperOf[c] ELSE c

toLowerCase(s) == [i \in 1..Len(s) |-> ToLowerChar(s[i])]

toUpperCase(s) == [i \in 1..Len(s) |-> ToUpperChar(s[i])]

\* \w of a JavaScript regular expression without the u flag: [A-Za-z0-9_]
WordChars == Range(UpperChars) \cup Range(LowerChars) \cup DigitChars \cup {"_"}

IsWordChar(c) == c \in WordChars

\* \s
IsSpaceChar(c) == c \in SpaceChars

\* String.prototype.normalize('NFKD'), on the characters the model uses:
\* a precomposed letter becomes the base letter followed by a combining
\* mark, a compatibility ligature becomes its letters, ASCII is unchanged.
DecomposeChar(c) ==
  CASE c = "e-acute" -> <<"e", "combining-acute">>
    [] c = "fi-ligature" -> <<"f", "i">>
    [] OTHER -> <<c>>

RECURSIVE normalizeNFKD(_)
normalizeNFKD(s) ==
  IF s = <<>> THEN <<>> ELSE DecomposeChar(Head(s)) \o normalizeNFKD(Tail(s))

\* .replace(/[^\w\s]/g, ' ')
ReplacePunctuation(s) ==
  [i \in 1..Len(s) |-> IF IsWordChar(s[i]) \/ IsSpaceChar(s[i]) THEN s[i] ELSE " "]

\* .replace(/\s+/g, ' ')
RECURSIVE CollapseWhitespace(_)
CollapseWhitespace(s) ==
  IF s = <<>> THEN <<>>
  ELSE LET r == CollapseWhitespace(Tail(s)) IN
       IF IsSpaceChar(Head(s))
         THEN IF Tail(s) # <<>> /\ IsSpaceChar(Head(Tail(s))) THEN r ELSE <<" ">> \o r
         ELSE <<Head(s)>> \o r

RECURSIVE TrimStart(_)
TrimStart(s) ==
  IF s # <<>> /\ IsSpaceChar(Head(s)) THEN TrimStart(Tail(s)) ELSE s

RECURSIVE TrimEnd(_)
TrimEnd(s) ==
  IF s # <<>> /\ IsSpaceChar(s[Len(s)]) THEN TrimEnd(SubSeq(s, 1, Len(s) - 1)) ELSE s

trim(s) == TrimEnd(TrimStart(s))

normalizeDescription(input) ==
  toLowerCase(trim(CollapseWhitespace(ReplacePunctuation(normalizeNFKD(input)))))

-----------------------------------------------------------------------------
(* Transaction hasher.                                                     *)

\* Number.prototype.toFixed(2) of an amount given in thousandths: the sign
\* is printed whenever the number is negative (also when it rounds to
\* zero: "-0.00"), the magnitude is rounded to the nearest hundredth, a tie
\* going to the larger magnitude.  The result is <<sign, hundredths>>.
toFixed2(amount) ==
  <<IF amount < 0 THEN "-" ELSE "", (Abs(amount) + 5) \div 10>>

buildTransactionHash(input) ==
  << input.accountId,
     input.postedDate,
     toFixed2(input.amount),
     toUpperCase(input.currency),
     toLowerCase(trim(input.normalizedDescription)) >>

-----------------------------------------------------------------------------
(* Dates.  An ISO date string that Date can parse has a time value; the    *)
(* order of the time values is the order of the calendar.  Any other       *)
(* string gives an Invalid Date, whose time value is NaN.                  *)

Calendar == <<"2024-01-01", "2024-01-31">>

IsValidDate(d) == d \in Range(Calendar)

getTime(d) == CHOOSE i \in 1..Len(Calendar) : Calendar[i] = d

\* new Date(a) <= new Date(b): false as soon as one side is NaN
DateLeq(a, b) == IsValidDate(a) /\ IsValidDate(b) /\ getTime(a) <= getTime(b)

-----------------------------------------------------------------------------
(* Ingestion verifier (BoundaryMLIngestionVerifier).                       *)

\* the tolerance of the balance reconciliation: 1 currency unit
deltaToleranceLimit == 1000

PeriodInvalidIssue ==
  [code |-> "period_invalid", field |-> "period", severity |-> "ERROR"]

BalanceMismatchIssue ==
  [code |-> "balance_mismatch", field |-> "closingBalance", severity |-> "ERROR"]

DuplicateIssue ==
  [code |-> "duplicate_transaction", field |-> "transactions", severity |-> "WARNING"]

RECURSIVE totalActivity(_)
totalActivity(txns) ==
  IF txns = <<>> THEN 0 ELSE Head(txns).amount + totalActivity(Tail(txns))

\* variant: the signature is the account id alone
SignatureOfAccount(txn) == <<txn.accountId>>

\* `${accountId}-${postedDate}-${amount}-${currency}-${description}`.  The
\* account ids and dates of the model have a fixed length and its currency
\* codes contain no "-", so distinct field tuples give distinct strings and
\* the string is represented by the tuple of its fields.
Signature(txn) ==
  <<txn.accountId, txn.postedDate, txn.amount, txn.currency, txn.description>>

\* variant: a repeated row is reported as an ERROR
RECURSIVE DuplicateIssuesAsErrors(_, _)
DuplicateIssuesAsErrors(txns, i) ==
  IF i > Len(txns) THEN <<>>
  ELSE (IF \E j \in 1..(i - 1) : Signature(txns[j]) = Signature(txns[i])
          THEN <<[DuplicateIssue EXCEPT !.severity = "ERROR"]>> ELSE <<>>)
       \o DuplicateIssuesAsErrors(txns, i + 1)

\* one issue per transaction whose signature an earlier transaction has
RECURSIVE DuplicateIssues(_, _)
DuplicateIssues(txns, i) ==
  IF i > Len(txns) THEN <<>>
  ELSE (IF \E j \in 1..(i - 1) : Signature(txns[j]) = Signature(txns[i])
          THEN <<DuplicateIssue>> ELSE <<>>)
       \o DuplicateIssues(txns, i + 1)

\* variant: the balance delta taken as opening - closing
FallbackIssuesDeltaReversed(statement) ==
  (IF ~DateLeq(statement.period.start, statement.period.end)
     THEN <<PeriodInvalidIssue>> ELSE <<>>)
  \o (IF Abs(totalActivity(statement.transactions)
             - (statement.openingBalance - statement.closingBalance)) > deltaToleranceLimit
        THEN <<BalanceMismatchIssue>> ELSE <<>>)
  \o DuplicateIssues(statement.transactions, 1)

\* variant: a difference equal to the tolerance already counts as a mismatch
FallbackIssuesInclusive(statement) ==
  (IF ~DateLeq(statement.period.start, statement.period.end)
     THEN <<PeriodInvalidIssue>> ELSE <<>>)
  \o (IF Abs(totalActivity(statement.transactions)
             - (statement.closingBalance - statement.openingBalance)) >= deltaToleranceLimit
        THEN <<BalanceMismatchIssue>> ELSE <<>>)
  \o DuplicateIssues(statement.transactions, 1)

FallbackIssues(statement) ==
  (IF ~DateLeq(statement.period.start, statement.period.end)
     THEN <<PeriodInvalidIssue>> ELSE <<>>)
  \o (IF Abs(totalActivity(statement.transactions)
             - (statement.closingBalance - statement.openingBalance)) > deltaToleranceLimit
        THEN <<BalanceMismatchIssue>> ELSE <<>>)
  \o DuplicateIssues(statement.transactions, 1)

HasError(issues) == \E i \in 1..Len(issues) : issues[i].severity = "ERROR"

\* variant: only errors are looked at, warnings alone give PASS
StatusOfErrorsOnly(issues) ==
  IF HasError(issues) THEN "FAIL" ELSE "PASS"

StatusOf(issues) ==
  IF HasError(issues) THEN "FAIL" ELSE IF Len(issues) > 0 THEN "REVIEW" ELSE "PASS"

\* confidence in tenths: 0.9, 0.6, 0.1
ConfidenceOf(status) ==
  IF status = "PASS" THEN 9 ELSE IF status = "REVIEW" THEN 6 ELSE 1

runFallbackChecks(statement, statementId) ==
  LET issues == FallbackIssues(statement)
      status == StatusOf(issues)
  IN [statementId |-> statementId,
      status |-> status,
      confidence |-> ConfidenceOf(status),
      issues |-> issues,
      source |-> "boundaryml-fallback",
      reason |-> "fallback"]

\* the report returned when the service is unavailable and the fallback
\* checks are not enabled
PendingReport(statementId) ==
  [statementId |-> statementId,
   status |-> "PENDING",
   confidence |-> 0,
   issues |-> <<>>,
   source |-> "boundaryml-fallback",
   reason |-> "boundaryml_unavailable"]

\* invokeBoundary: the transport's outcome is a response (2xx or not, with
\* a body that is truthy or not) or an exception (a timeout aborts the
\* request, which rejects the call).  The exception is caught; the result
\* is the body of a 2xx response, else null.
invokeBoundary(outcome) ==
  CASE outcome.kind = "response" /\ outcome.ok /\ outcome.truthy ->
         [threw |-> FALSE, truthy |-> TRUE, report |-> outcome.body]
    [] outcome.kind = "response" /\ outcome.ok /\ ~outcome.truthy ->
         [threw |-> FALSE, truthy |-> FALSE]
    [] outcome.kind = "response" /\ ~outcome.ok -> [threw |-> FALSE, truthy |-> FALSE]
    [] outcome.kind = "throw" -> [threw |-> FALSE, truthy |-> FALSE]

\* BoundaryMLIngestionVerifier.validate under a configuration
\* [transport, enableFallbackChecks]; the result is the report and the
\* branch that produced it (by), or threw when an exception escapes.
verifierValidate(cfg, statement, statementId, outcome) ==
  LET delegated == invokeBoundary(outcome)
  IN IF cfg.transport /\ delegated.threw
       THEN [threw |-> TRUE, by |-> "none", report |-> PendingReport(statementId)]
     ELSE IF cfg.transport /\ delegated.truthy
       THEN [threw |-> FALSE, by |-> "boundary", report |-> delegated.report]
     ELSE IF cfg.enableFallbackChecks
       THEN [threw |-> FALSE, by |-> "fallback",
             report |-> runFallbackChecks(statement, statementId)]
     ELSE [threw |-> FALSE, by |-> "pending", report |-> PendingReport(statementId)]

-----------------------------------------------------------------------------
(* Currency converter (CachedFxConverter).  A rate is a whole number.      *)

\* variant: the pair key does not depend on the direction of the conversion
PairKeyUnordered(fromCurrency, toCurrency) ==
  LET a == toUpperCase(fromCurrency)
      b == toUpperCase(toCurrency)
      codes == <<<<"E", "U", "R">>, <<"U", "S", "D">>>>
      rank(c) == IF \E i \in 1..Len(codes) : codes[i] = c
                   THEN CHOOSE i \in 1..Len(codes) : codes[i] = c ELSE 0
  IN IF rank(a) <= rank(b) THEN <<a, b>> ELSE <<b, a>>

\* `${fromCurrency}_${toCurrency}`.toUpperCase(): the ordered pair of the
\* upper-cased codes (a code contains no "_")
PairKey(fromCurrency, toCurrency) == <<toUpperCase(fromCurrency), toUpperCase(toCurrency)>>

\* variant: equal currencies go through the cache like any other pair
convertAlwaysLooksUp(rates, amount, fromCurrency, toCurrency, asOf) ==
  LET pair == PairKey(fromCurrency, toCurrency)
      entry == IF MapHas(rates, pair) THEN rates[pair] ELSE [rate |-> 1, asOf |-> asOf]
  IN [convertedAmount |-> amount * entry.rate,
      rate |-> entry.rate,
      cache |-> IF MapHas(rates, pair) THEN rates ELSE MapSet(rates, pair, entry)]

\* variant: the placeholder rate is used but not recorded
convertWithoutRecording(rates, amount, fromCurrency, toCurrency, asOf) ==
  IF fromCurrency = toCurrency
    THEN [convertedAmount |-> amount, rate |-> 1, cache |-> rates]
    ELSE LET pair == PairKey(fromCurrency, toCurrency)
             entry == IF MapHas(rates, pair) THEN rates[pair] ELSE [rate |-> 1, asOf |-> asOf]
         IN [convertedAmount |-> amount * entry.rate,
             rate |-> entry.rate,
             cache |-> rates]

\* convert: the converted amount, the rate used and the cache afterwards
convert(rates, amount, fromCurrency, toCurrency, asOf) ==
  IF fromCurrency = toCurrency
    THEN [convertedAmount |-> amount, rate |-> 1, cache |-> rates]
    ELSE LET pair == PairKey(fromCurrency, toCurrency)
             entry == IF MapHas(rates, pair) THEN rates[pair] ELSE [rate |-> 1, asOf |-> asOf]
         IN [convertedAmount |-> amount * entry.rate,
             rate |-> entry.rate,
             cache |-> IF MapHas(rates, pair) THEN rates ELSE MapSet(rates, pair, entry)]

\* setRate: the entry of the pair is set, whether or not one was cached
setRate(rates, fromCurrency, toCurrency, rate, asOf) ==
  MapSet(rates, PairKey(fromCurrency, toCurrency), [rate |-> rate, asOf |-> asOf])

\* the constructor: the cache seeded from initialRates, in list order
RECURSIVE seedRates(_, _)
seedRates(rates, initialRates) ==
  IF initialRates = <<>> THEN rates
  ELSE seedRates(setRate(rates, Head(initialRates).fromCurrency, Head(initialRates).toCurrency,
                         Head(initialRates).rate, Head(initialRates).asOf),
                 Tail(initialRates))

-----------------------------------------------------------------------------
(* Storage adapter (InMemoryStorageAdapter).                               *)

\* variant: an account already stored is left as it is
upsertAccountKeepingFirst(store, account) ==
  IF MapHas(store, account.id) THEN store ELSE MapSet(store, account.id, account)

upsertAccount(store, account) == MapSet(store, account.id, account)

\* variant: an array-backed store, every write appends a new entry
RECURSIVE bulkAppendTransactions(_, _)
bulkAppendTransactions(store, txns) ==
  IF txns = <<>> THEN store
  ELSE bulkAppendTransactions(
         MapSet(store, <<Head(txns).dedupeHash, Cardinality(DOMAIN store)>>, Head(txns)),
         Tail(txns))

\* variant: the map is keyed by the transaction id
RECURSIVE bulkUpsertTransactionsById(_, _)
bulkUpsertTransactionsById(store, txns) ==
  IF txns = <<>> THEN store
  ELSE bulkUpsertTransactionsById(MapSet(store, Head(txns).id, Head(txns)), Tail(txns))

RECURSIVE bulkUpsertTransactions(_, _)
bulkUpsertTransactions(store, txns) ==
  IF txns = <<>> THEN store
  ELSE bulkUpsertTransactions(MapSet(store, Head(txns).dedupeHash, Head(txns)), Tail(txns))

saveStatement(store, statement) == MapSet(store, statement.id, statement)

RECURSIVE saveAdviceRecommendations(_, _)
saveAdviceRecommendations(store, recommendations) ==
  IF recommendations = <<>> THEN store
  ELSE saveAdviceRecommendations(
         MapSet(store, Head(recommendations).id, Head(recommendations)),
         Tail(recommendations))

\* variant: a report is stored only if none is stored for the statement id
saveVerificationReportOnce(store, report) ==
  IF MapHas(store, report.statementId) THEN store
  ELSE MapSet(store, report.statementId, report)

saveVerificationReport(store, report) == MapSet(store, report.statementId, report)

-----------------------------------------------------------------------------
(* Validation orchestration (IngestionValidationService).                  *)

\* variant: a FAIL report aborts only when all of its issues are errors
validationThrowsIfAllErrors(report) ==
  /\ report.status = "FAIL"
  /\ \A i \in 1..Len(report.issues) : report.issues[i].severity = "ERROR"

\* variant: every FAIL report aborts, whatever its issues
validationThrowsOnAnyFail(report) == report.status = "FAIL"

\* validate raises after the report is saved, when the report is FAIL and
\* has an ERROR issue
validationThrows(report) == report.status = "FAIL" /\ HasError(report.issues)

\* IngestionValidationService.validate: the report, whether it was saved,
\* whether the call raised, and the report store afterwards
validationServiceValidate(cfg, statement, statementId, outcome, store) ==
  LET v == verifierValidate(cfg, statement, statementId, outcome)
  IN [report |-> v.report,
      by |-> v.by,
      verifierThrew |-> v.threw,
      saved |-> ~v.threw,
      threw |-> v.threw \/ validationThrows(v.report),
      verifications |-> IF v.threw THEN store ELSE saveVerificationReport(store, v.report)]

-----------------------------------------------------------------------------
(* Document ingestion (IngestionService).                                  *)

\* no base currency given (undefined, or the empty string)
NoBase == <<>>

\* variant: the account takes the opening balance of the statement
mapAccountOpeningBalance(parsed) ==
  [id |-> parsed.account.accountId,
   institutionId |-> parsed.account.institutionId,
   currency |-> parsed.account.currency,
   balance |-> parsed.openingBalance,
   asOf |-> parsed.period.end]

mapAccount(parsed) ==
  [id |-> parsed.account.accountId,
   institutionId |-> parsed.account.institutionId,
   currency |-> parsed.account.currency,
   balance |-> parsed.closingBalance,
   asOf |-> parsed.period.end]

resolveTransactionType(amount) == IF amount >= 0 THEN "CREDIT" ELSE "DEBIT"

\* a transaction id is the external id when there is one, else the digest
ExternalId(id) == <<id>>

\* variant: the digest is taken of the converted amount and currency
mapTransactionHashingConverted(txn, account, baseCurrency, rates) ==
  LET normalizedDescription == normalizeDescription(txn.description)
      needsConversion == baseCurrency # NoBase /\ txn.currency # baseCurrency
      fx == IF needsConversion
              THEN convert(rates, txn.amount, txn.currency, baseCurrency, txn.postedDate)
              ELSE [convertedAmount |-> txn.amount, rate |-> 0, cache |-> rates]
      dedupeHash == buildTransactionHash(
                      [accountId |-> account.id,
                       postedDate |-> txn.postedDate,
                       amount |-> fx.convertedAmount,
                       currency |-> IF needsConversion THEN baseCurrency ELSE txn.currency,
                       normalizedDescription |-> normalizedDescription])
  IN [transaction |->
        [id |-> IF txn.externalId # Undefined THEN ExternalId(txn.externalId) ELSE dedupeHash,
         accountId |-> account.id,
         postedDate |-> txn.postedDate,
         description |-> txn.description,
         amount |-> fx.convertedAmount,
         currency |-> IF needsConversion THEN baseCurrency ELSE txn.currency,
         type |-> resolveTransactionType(txn.amount),
         normalizedDescription |-> normalizedDescription,
         dedupeHash |-> dedupeHash,
         originalCurrency |-> txn.currency,
         converted |-> needsConversion,
         conversionRate |-> fx.rate],
      cache |-> fx.cache]

\* one round of the loop of mapTransactions: the Transaction assembled from
\* a parsed transaction, and the rate cache afterwards
mapTransaction(txn, account, baseCurrency, rates) ==
  LET normalizedDescription == normalizeDescription(txn.description)
      dedupeHash == buildTransactionHash(
                      [accountId |-> account.id,
                       postedDate |-> txn.postedDate,
                       amount |-> txn.amount,
                       currency |-> txn.currency,
                       normalizedDescription |-> normalizedDescription])
      needsConversion == baseCurrency # NoBase /\ txn.currency # baseCurrency
      fx == IF needsConversion
              THEN convert(rates, txn.amount, txn.currency, baseCurrency, txn.postedDate)
              ELSE [convertedAmount |-> txn.amount, rate |-> 0, cache |-> rates]
  IN [transaction |->
        [id |-> IF txn.externalId # Undefined THEN ExternalId(txn.externalId) ELSE dedupeHash,
         accountId |-> account.id,
         postedDate |-> txn.postedDate,
         description |-> txn.description,
         amount |-> fx.convertedAmount,
         currency |-> IF needsConversion THEN baseCurrency ELSE txn.currency,
         type |-> resolveTransactionType(txn.amount),
         normalizedDescription |-> normalizedDescription,
         dedupeHash |-> dedupeHash,
         originalCurrency |-> txn.currency,
         converted |-> needsConversion,
         conversionRate |-> fx.rate],
      cache |-> fx.cache]

\* mapTransactions: the Transactions in document order, and the rate cache
\* after the conversions
RECURSIVE mapTransactions(_, _, _, _)
mapTransactions(txns, account, baseCurrency, rates) ==
  IF txns = <<>> THEN [transactions |-> <<>>, cache |-> rates]
  ELSE LET first == mapTransaction(Head(txns), account, baseCurrency, rates)
           rest == mapTransactions(Tail(txns), account, baseCurrency, first.cache)
       IN [transactions |-> <<first.transaction>> \o rest.transactions,
           cache |-> rest.cache]

\* variant: the statement is saved with the initial status
buildStatementUnverified(statementId, parsed, account, txns, report) ==
  [id |-> statementId,
   account |-> account,
   statementPeriodStart |-> parsed.period.start,
   statementPeriodEnd |-> parsed.period.end,
   openingBalance |-> parsed.openingBalance,
   closingBalance |-> parsed.closingBalance,
   currency |-> parsed.currency,
   transactions |-> txns,
   source |-> parsed.source,
   verificationStatus |-> "PENDING"]

\* the Statement record that ingestStatement saves
buildStatement(statementId, parsed, account, txns, report) ==
  [id |-> statementId,
   account |-> account,
   statementPeriodStart |-> parsed.period.start,
   statementPeriodEnd |-> parsed.period.end,
   openingBalance |-> parsed.openingBalance,
   closingBalance |-> parsed.closingBalance,
   currency |-> parsed.currency,
   transactions |-> txns,
   source |-> parsed.source,
   verificationStatus |-> report.status]

-----------------------------------------------------------------------------
(* Aggregator sync (SyncService) over the aggregator's data (the feed).    *)

\* PlaidBankAggregatorAdapter.fetchTransactions: the feed's transactions of
\* the account posted inside the window, in feed order
InWindow(txn, window) ==
  DateLeq(window.startDate, txn.postedAt) /\ DateLeq(txn.postedAt, window.endDate)

RECURSIVE fetchTransactions(_, _, _)
fetchTransactions(txns, accountId, window) ==
  IF txns = <<>> THEN <<>>
  ELSE (IF Head(txns).accountId = accountId /\ InWindow(Head(txns), window)
          THEN <<Head(txns)>> ELSE <<>>)
       \o fetchTransactions(Tail(txns), accountId, window)

syncAccount(extAccount) ==
  [id |-> extAccount.id,
   institutionId |-> extAccount.institutionId,
   currency |-> extAccount.currency,
   balance |-> extAccount.balance,
   asOf |-> extAccount.asOf]

\* one round of the inner loop of sync
syncTransaction(txn, baseCurrency, rates) ==
  LET normalizedDescription == normalizeDescription(txn.description)
      dedupeHash == buildTransactionHash(
                      [accountId |-> txn.accountId,
                       postedDate |-> txn.postedAt,
                       amount |-> txn.amount,
                       currency |-> txn.currency,
                       normalizedDescription |-> normalizedDescription])
      needsConversion == baseCurrency # NoBase /\ txn.currency # baseCurrency
      fx == IF needsConversion
              THEN convert(rates, txn.amount, txn.currency, baseCurrency, txn.postedAt)
              ELSE [convertedAmount |-> txn.amount, rate |-> 0, cache |-> rates]
  IN [transaction |->
        [id |-> ExternalId(txn.id),
         accountId |-> txn.accountId,
         postedDate |-> txn.postedAt,
         description |-> txn.description,
         amount |-> fx.convertedAmount,
         currency |-> IF needsConversion THEN baseCurrency ELSE txn.currency,
         type |-> resolveTransactionType(txn.amount),
         normalizedDescription |-> normalizedDescription,
         dedupeHash |-> dedupeHash,
         originalCurrency |-> txn.currency,
         converted |-> needsConversion,
         conversionRate |-> fx.rate],
      cache |-> fx.cache]

RECURSIVE syncTransactions(_, _, _)
syncTransactions(txns, baseCurrency, rates) ==
  IF txns = <<>> THEN [transactions |-> <<>>, cache |-> rates]
  ELSE LET first == syncTransaction(Head(txns), baseCurrency, rates)
           rest == syncTransactions(Tail(txns), baseCurrency, first.cache)
       IN [transactions |-> <<first.transaction>> \o rest.transactions,
           cache |-> rest.cache]

\* the loop of sync over the external accounts: the account store, the
\* rate cache and the transactions collected so far
RECURSIVE syncLoop(_, _, _, _, _, _)
syncLoop(extAccounts, feed, window, baseCurrency, accountStore, rates) ==
  IF extAccounts = <<>>
    THEN [accounts |-> accountStore, cache |-> rates, transactions |-> <<>>]
  ELSE LET account == syncAccount(Head(extAccounts))
           fetched == fetchTransactions(feed.transactions, account.id, window)
           mapped == syncTransactions(fetched, baseCurrency, rates)
           rest == syncLoop(Tail(extAccounts), feed, window, baseCurrency,
                            upsertAccount(accountStore, account), mapped.cache)
       IN [accounts |-> rest.accounts,
           cache |-> rest.cache,
           transactions |-> mapped.transactions \o rest.transactions]

-----------------------------------------------------------------------------
(* Input data of the model.                                                *)

USD == <<"U", "S", "D">>

usd == <<"u", "s", "d">>

EUR == <<"E", "U", "R">>

DescRent == <<"R", "e", "n", "t">>

DescRentBang == <<"r", "e", "n", "t", "!">>

DescGym == <<"G", "y", "m">>

SeqUpTo(S, n) == UNION {[1..k -> S] : k \in 0..n}

\* a transaction of a parsed statement (ParsedTransactionDTO)
ParsedTxn(accountId, postedDate, description, amount, currency, externalId) ==
  [accountId |-> accountId, postedDate |-> postedDate, description |-> description,
   amount |-> amount, currency |-> currency, externalId |-> externalId]

\* a parsed statement (ParsedStatementDTO)
ParsedStatement(accountId, institutionId, period, opening, closing, txns) ==
  [account |-> [accountId |-> accountId, institutionId |-> institutionId, currency |-> USD],
   period |-> [start |-> period[1], end |-> period[2]],
   openingBalance |-> opening,
   closingBalance |-> closing,
   transactions |-> txns,
   currency |-> USD,
   source |-> "PDF"]

Periods ==
  { <<"2024-01-01", "2024-01-31">>, <<"2024-01-31", "2024-01-01">>, <<"n/a", "2024-01-31">> }

-----------------------------------------------------------------------------
(* Specification SpecFallback: the fallback checks as a function of the    *)
(* statement.  A statement is drawn, the checks are run on it, and the     *)
(* checks are run again on the statement with one amount changed.          *)

MaxFallbackTxns == 2

FallbackAmounts == {-1000, 1, 1000, 1001, 2000}

FallbackTxnPool ==
  { ParsedTxn("acct-1", "2024-01-01", d, a, USD, Undefined) :
      d \in {DescRent, DescRentBang}, a \in FallbackAmounts }
  \cup { ParsedTxn("acct-2", "2024-01-01", DescRent, 1000, USD, Undefined),
         ParsedTxn("acct-1", "2024-01-31", DescRent, 1000, USD, Undefined),
         ParsedTxn("acct-1", "2024-01-01", DescRent, 1000, usd, Undefined) }

FallbackStatements ==
  { ParsedStatement("acct-1", "inst-1", p, o, c, t) :
      p \in Periods, o \in {0, 500}, c \in {0, 1000, 3001},
      t \in SeqUpTo(FallbackTxnPool, MaxFallbackTxns) }

PerturbDeltas == {-2000, -1001, -1000, -1, 1, 1000, 1001, 2000}

NoChange == [index |-> 0, delta |-> 0]

ReconcilesExactly(statement) ==
  totalActivity(statement.transactions) = statement.closingBalance - statement.openingBalance

StoresEmpty ==
  /\ accounts = EmptyMap
  /\ statements = EmptyMap
  /\ transactions = EmptyMap
  /\ verifications = EmptyMap
  /\ advice = EmptyMap
  /\ cache = EmptyMap

AppContainerConfig == [transport |-> FALSE, enableFallbackChecks |-> TRUE]

InitFallback ==
  /\ StoresEmpty
  /\ config = AppContainerConfig
  /\ tasks = EmptyMap
  /\ calls = 0
  /\ last \in { [op |-> "drawn", statement |-> s] : s \in FallbackStatements }

\* runFallbackChecks on the drawn statement
FallbackCheck ==
  /\ last.op = "drawn"
  /\ last' = [op |-> "runFallbackChecks",
              statement |-> last.statement,
              original |-> last.statement,
              change |-> NoChange,
              report |-> runFallbackChecks(last.statement, "stmt-1")]
  /\ UNCHANGED <<stores, config, advice, tasks, calls>>

\* runFallbackChecks on a statement that reconciled exactly, after the
\* amount of its transaction i is changed by d
FallbackCheckPerturbed ==
  /\ last.op = "runFallbackChecks"
  /\ last.change = NoChange
  /\ ReconcilesExactly(last.statement)
  /\ \E i \in 1..Len(last.statement.transactions), d \in PerturbDeltas :
       LET old == last.statement.transactions[i]
           changed == [last.statement EXCEPT
                         !.transactions[i] = [old EXCEPT !.amount = old.amount + d]]
       IN last' = [op |-> "runFallbackChecks",
                   statement |-> changed,
                   original |-> last.statement,
                   change |-> [index |-> i, delta |-> d],
                   report |-> runFallbackChecks(changed, "stmt-1")]
  /\ UNCHANGED <<stores, config, advice, tasks, calls>>

NextFallback == FallbackCheck \/ FallbackCheckPerturbed

SpecFallback == InitFallback /\ [][NextFallback]_vars

FallbackRan == last.op = "runFallbackChecks"

HasIssue(report, code) == \E i \in 1..Len(report.issues) : report.issues[i].code = code

SameRow(a, b) ==
  /\ a.accountId = b.accountId
  /\ a.postedDate = b.postedDate
  /\ a.amount = b.amount
  /\ a.currency = b.currency
  /\ a.description = b.description

HasRepeatedRow(statement) ==
  \E i, j \in 1..Len(statement.transactions) :
    i < j /\ SameRow(statement.transactions[i], statement.transactions[j])

\* C7: the fallback verifier derives the status from the issue list alone:
\* FAIL if some issue has severity ERROR, else REVIEW if there is an issue,
\* else PASS; the confidence is 0.9 for PASS, 0.6 for REVIEW, 0.1 for FAIL.
C7_StatusFromIssues ==
  FallbackRan =>
    LET r == last.report
        anyError == \E i \in 1..Len(r.issues) : r.issues[i].severity = "ERROR"
    IN /\ anyError => r.status = "FAIL"
       /\ (~anyError /\ Len(r.issues) >= 1) => r.status = "REVIEW"
       /\ Len(r.issues) = 0 => r.status = "PASS"
       /\ r.status = "PASS" => r.confidence = 9
       /\ r.status = "REVIEW" => r.confidence = 6
       /\ r.status = "FAIL" => r.confidence = 1
       /\ r.status \in {"PASS", "REVIEW", "FAIL"}

C7_Witness ==
  /\ FallbackRan
  /\ last.report.status = "REVIEW"
  /\ last.report.confidence = 6
  /\ Len(last.report.issues) >= 1

\* C8 as stated: every statement whose amounts sum exactly to closing minus
\* opening gets PASS with an empty issue list.
C8_ExactSumAlwaysPasses ==
  (FallbackRan /\ ReconcilesExactly(last.statement)) =>
    (last.report.status = "PASS" /\ last.report.issues = <<>>)

\* C8 amended: a statement whose amounts sum exactly to closing minus
\* opening, whose period start is not after its end and which has no two
\* rows identical in (account id, posted date, amount, currency,
\* description) gets PASS with an empty issue list.
C8_ExactSumPasses ==
  (/\ FallbackRan
   /\ ReconcilesExactly(last.statement)
   /\ DateLeq(last.statement.period.start, last.statement.period.end)
   /\ ~HasRepeatedRow(last.statement)) =>
    (last.report.status = "PASS" /\ last.report.issues = <<>>)

C8_Witness ==
  /\ FallbackRan
  /\ ReconcilesExactly(last.statement)
  /\ Len(last.statement.transactions) = 2
  /\ last.statement.closingBalance # last.statement.openingBalance
  /\ last.report.status = "PASS"
  /\ last.report.issues = <<>>

\* C9: a balance_mismatch issue is raised exactly when the absolute
\* difference between the sum of the amounts and closing minus opening is
\* strictly greater than the tolerance (a difference equal to it raises
\* none); and changing one amount of an exactly reconciling statement by
\* more than the tolerance gives FAIL with a balance_mismatch ERROR.
C9_MismatchBeyondTolerance ==
  FallbackRan =>
    LET r == last.report
        st == last.statement
        diff == Abs(totalActivity(st.transactions) - (st.closingBalance - st.openingBalance))
    IN /\ HasIssue(r, "balance_mismatch") <=> diff > deltaToleranceLimit
       /\ (/\ last.change.index # 0
           /\ ReconcilesExactly(last.original)
           /\ Abs(last.change.delta) > deltaToleranceLimit)
          => /\ r.status = "FAIL"
             /\ \E i \in 1..Len(r.issues) :
                  r.issues[i].code = "balance_mismatch" /\ r.issues[i].severity = "ERROR"

C9_Witness ==
  /\ FallbackRan
  /\ last.change.index # 0
  /\ ReconcilesExactly(last.original)
  /\ last.change.delta = deltaToleranceLimit + 1
  /\ last.report.status = "FAIL"
  /\ HasIssue(last.report, "balance_mismatch")

\* C10: two rows of one statement identical in (account id, posted date,
\* amount, currency, raw description) produce a WARNING
\* duplicate_transaction issue, and a statement whose only issues are
\* duplicate_transaction warnings has status REVIEW, never FAIL.
C10_DuplicatesAreWarnings ==
  FallbackRan =>
    LET r == last.report IN
    /\ HasRepeatedRow(last.statement) =>
         \E i \in 1..Len(r.issues) :
           r.issues[i].code = "duplicate_transaction" /\ r.issues[i].severity = "WARNING"
    /\ (/\ Len(r.issues) >= 1
        /\ \A i \in 1..Len(r.issues) : r.issues[i].code = "duplicate_transaction")
       => r.status = "REVIEW"

C10_Witness ==
  /\ FallbackRan
  /\ HasRepeatedRow(last.statement)
  /\ \A i \in 1..Len(last.report.issues) : last.report.issues[i].code = "duplicate_transaction"
  /\ last.report.status = "REVIEW"

-----------------------------------------------------------------------------
(* The operations as actions on the stores.                                *)

\* Two observations recorded with a completed call: whether the call before
\* it completed too with the same operation on the same source data, and
\* whether the call wrote a transaction over a different stored one.
SameSourceAsLast(call) ==
  /\ last.stage = "done"
  /\ last.call.op = call.op
  /\ \/ call.op = "ingestStatement" /\ last.call.parse = call.parse
     \/ call.op = "sync" /\ last.call.feed = call.feed /\ last.call.window = call.window

Overwrites(written) ==
  \E i \in 1..Len(written) :
    /\ MapHas(transactions, written[i].dedupeHash)
    /\ transactions[written[i].dedupeHash] # written[i]

\* the transport is not called when none is configured
NotCalled == [kind |-> "none"]

\* ingestStatement(statementId, rawStatement, baseCurrency).  parse is what
\* the extractor does with the raw statement: it returns a parsed statement
\* or raises; outcome is what the transport does if it is called.
IngestStatement(statementId, parse, baseCurrency, outcome) ==
  LET call == [op |-> "ingestStatement", statementId |-> statementId, parse |-> parse,
               baseCurrency |-> baseCurrency, outcome |-> outcome]
  IN
  IF ~parse.ok
    THEN /\ last' = [call |-> call, stage |-> "extract"]
         /\ UNCHANGED stores
  ELSE
    \E val \in {validationServiceValidate(config, parse.statement, statementId, outcome,
                                          verifications)} :
    LET parsed == parse.statement
        validation == [report |-> val.report, by |-> val.by, saved |-> val.saved,
                       verifierThrew |-> val.verifierThrew, threw |-> val.threw]
    IN
    /\ verifications' = val.verifications
    /\ IF val.threw
         THEN /\ last' = [call |-> call, stage |-> "verify", validation |-> validation]
              /\ UNCHANGED <<accounts, statements, transactions, cache>>
         ELSE \E account \in {mapAccount(parsed)} :
              \E mapped \in {mapTransactions(parsed.transactions, account, baseCurrency, cache)} :
              LET statement == buildStatement(statementId, parsed, account,
                                              mapped.transactions, val.report)
              IN /\ cache' = mapped.cache
                 /\ accounts' = upsertAccount(accounts, account)
                 /\ transactions' = bulkUpsertTransactions(transactions, mapped.transactions)
                 /\ statements' = saveStatement(statements, statement)
                 /\ last' = [call |-> call, stage |-> "done", validation |-> validation,
                             written |-> mapped.transactions,
                             again |-> SameSourceAsLast(call),
                             overwrote |-> Overwrites(mapped.transactions)]

\* sync over the aggregator's feed
Sync(feed, window, baseCurrency) ==
  \E done \in {syncLoop(feed.accounts, feed, window, baseCurrency, accounts, cache)} :
  LET call == [op |-> "sync", feed |-> feed, window |-> window, baseCurrency |-> baseCurrency]
  IN /\ accounts' = done.accounts
     /\ cache' = done.cache
     /\ transactions' = IF Len(done.transactions) > 0
                          THEN bulkUpsertTransactions(transactions, done.transactions)
                          ELSE transactions
     /\ last' = [call |-> call, stage |-> "done", written |-> done.transactions,
                 again |-> SameSourceAsLast(call),
                 overwrote |-> Overwrites(done.transactions)]
     /\ UNCHANGED <<statements, verifications>>

\* variant: the verification report of the deleted statement is kept
DeleteStatementKeepingReport(statementId) ==
  LET call == [op |-> "deleteStatement", statementId |-> statementId]
  IN
  IF ~MapHas(statements, statementId)
    THEN /\ last' = [call |-> call, stage |-> "absent"]
         /\ UNCHANGED stores
  ELSE
    LET accountId == statements[statementId].account.id
        remaining == MapDeleteAll(statements, {statementId})
        transactionsToDelete == {h \in DOMAIN transactions : transactions[h].accountId = accountId}
        otherStatementsForAccount ==
          \E id \in DOMAIN remaining : remaining[id].account.id = accountId
    IN /\ statements' = remaining
       /\ transactions' = MapDeleteAll(transactions, transactionsToDelete)
       /\ accounts' = IF ~otherStatementsForAccount
                        THEN MapDeleteAll(accounts, {accountId}) ELSE accounts
       /\ last' = [call |-> call, stage |-> "done"]
       /\ UNCHANGED <<cache, verifications>>

\* variant: the account's transactions are deleted only with the account
DeleteStatementIfOrphaned(statementId) ==
  LET call == [op |-> "deleteStatement", statementId |-> statementId]
  IN
  IF ~MapHas(statements, statementId)
    THEN /\ last' = [call |-> call, stage |-> "absent"]
         /\ UNCHANGED stores
  ELSE
    LET accountId == statements[statementId].account.id
        remaining == MapDeleteAll(statements, {statementId})
        transactionsToDelete == {h \in DOMAIN transactions : transactions[h].accountId = accountId}
        otherStatementsForAccount ==
          \E id \in DOMAIN remaining : remaining[id].account.id = accountId
    IN /\ statements' = remaining
       /\ transactions' = IF ~otherStatementsForAccount
                            THEN MapDeleteAll(transactions, transactionsToDelete)
                            ELSE transactions
       /\ accounts' = IF ~otherStatementsForAccount
                        THEN MapDeleteAll(accounts, {accountId}) ELSE accounts
       /\ verifications' = MapDeleteAll(verifications, {statementId})
       /\ last' = [call |-> call, stage |-> "done"]
       /\ UNCHANGED cache

\* variant: the report is deleted before the statement is looked up
DeleteStatementReportFirst(statementId) ==
  LET call == [op |-> "deleteStatement", statementId |-> statementId]
  IN
  IF ~MapHas(statements, statementId)
    THEN /\ last' = [call |-> call, stage |-> "absent"]
         /\ verifications' = MapDeleteAll(verifications, {statementId})
         /\ UNCHANGED <<accounts, statements, transactions, advice, cache>>
  ELSE
    LET accountId == statements[statementId].account.id
        remaining == MapDeleteAll(statements, {statementId})
        transactionsToDelete == {h \in DOMAIN transactions : transactions[h].accountId = accountId}
        otherStatementsForAccount ==
          \E id \in DOMAIN remaining : remaining[id].account.id = accountId
    IN /\ statements' = remaining
       /\ transactions' = MapDeleteAll(transactions, transactionsToDelete)
       /\ accounts' = IF ~otherStatementsForAccount
                        THEN MapDeleteAll(accounts, {accountId}) ELSE accounts
       /\ verifications' = MapDeleteAll(verifications, {statementId})
       /\ last' = [call |-> call, stage |-> "done"]
       /\ UNCHANGED cache

\* deleteStatement
DeleteStatement(statementId) ==
  LET call == [op |-> "deleteStatement", statementId |-> statementId]
  IN
  IF ~MapHas(statements, statementId)
    THEN /\ last' = [call |-> call, stage |-> "absent"]
         /\ UNCHANGED stores
  ELSE
    LET accountId == statements[statementId].account.id
        remaining == MapDeleteAll(statements, {statementId})
        transactionsToDelete == {h \in DOMAIN transactions : transactions[h].accountId = accountId}
        otherStatementsForAccount ==
          \E id \in DOMAIN remaining : remaining[id].account.id = accountId
    IN /\ statements' = remaining
       /\ transactions' = MapDeleteAll(transactions, transactionsToDelete)
       /\ accounts' = IF ~otherStatementsForAccount
                        THEN MapDeleteAll(accounts, {accountId}) ELSE accounts
       /\ verifications' = MapDeleteAll(verifications, {statementId})
       /\ last' = [call |-> call, stage |-> "done"]
       /\ UNCHANGED cache

-----------------------------------------------------------------------------
(* Specification Spec: any sequence of ingestStatement, sync and           *)
(* deleteStatement calls on one container, up to MaxCalls calls.           *)

MaxCalls == 3

StatementIds == {"stmt-1", "stmt-2"}

AccountIds == {"acct-1", "acct-2"}

BaseCurrencies == {NoBase, USD}

ValidPeriod == <<"2024-01-01", "2024-01-31">>

TxnRent(a) == ParsedTxn(a, "2024-01-01", DescRent, 5000, USD, Undefined)

\* the same economic event as TxnRent, written differently and with an id
TxnRentBang(a) == ParsedTxn(a, "2024-01-01", DescRentBang, 5000, USD, "txn-b")

TxnGym(a) == ParsedTxn(a, "2024-01-31", DescGym, -2000, EUR, Undefined)

\* the statements of account a: <<closing balance, transactions>>
StatementShapes(a) ==
  { <<5000, <<TxnRent(a)>> >>,                   \* reconciles
    <<3000, <<TxnRentBang(a), TxnGym(a)>> >>,    \* reconciles, one foreign amount
    <<10000, <<TxnRent(a), TxnRent(a)>> >>,      \* a repeated row
    <<9000, <<TxnRent(a)>> >>,                   \* does not reconcile
    <<10000, <<TxnRent(a), TxnRentBang(a)>> >> } \* two rows, one digest

IngestStatements ==
  UNION { { ParsedStatement(a, "inst-1", ValidPeriod, 0, shape[1], shape[2]) :
              shape \in StatementShapes(a) } : a \in AccountIds }

Parsed(statement) == [ok |-> TRUE, statement |-> statement]

ExtractionFailure == [ok |-> FALSE]

ExternalAccount(id, balance) ==
  [id |-> id, institutionId |-> "plaid", currency |-> USD, balance |-> balance,
   asOf |-> "2024-01-31"]

ExternalTxn(id, accountId, postedAt, description, amount, currency) ==
  [id |-> id, accountId |-> accountId, postedAt |-> postedAt, description |-> description,
   amount |-> amount, currency |-> currency]

FeedRent == ExternalTxn("p-1", "acct-1", "2024-01-01", DescRent, 5000, USD)

FeedGym == ExternalTxn("p-2", "acct-2", "2024-01-31", DescGym, -2000, EUR)

Feeds ==
  { [accounts |-> <<ExternalAccount("acct-1", 7000)>>, transactions |-> <<FeedRent>>],
    [accounts |-> <<ExternalAccount("acct-1", 7000), ExternalAccount("acct-2", 0)>>,
     transactions |-> <<FeedRent, FeedGym>>],
    [accounts |-> <<ExternalAccount("acct-2", 0)>>, transactions |-> <<>>] }

SyncWindow == [startDate |-> "2024-01-01", endDate |-> "2024-01-31"]

Init ==
  /\ StoresEmpty
  /\ config = AppContainerConfig
  /\ tasks = EmptyMap
  /\ calls = 0
  /\ last = [call |-> [op |-> "none"], stage |-> "none"]

\* variant: a failed extraction still leaves a placeholder report behind
IngestCallReportingFailure ==
  /\ calls < MaxCalls
  /\ calls' = calls + 1
  /\ \E id \in StatementIds, b \in BaseCurrencies,
        p \in {Parsed(st) : st \in IngestStatements} \cup {ExtractionFailure} :
       IF p.ok
         THEN IngestStatement(id, p, b, NotCalled)
         ELSE /\ verifications' = saveVerificationReport(verifications, PendingReport(id))
              /\ last' = [call |-> [op |-> "ingestStatement", statementId |-> id, parse |-> p,
                                    baseCurrency |-> b, outcome |-> NotCalled],
                          stage |-> "extract"]
              /\ UNCHANGED <<accounts, statements, transactions, cache>>
  /\ UNCHANGED <<config, advice, tasks>>

IngestCall ==
  /\ calls < MaxCalls
  /\ calls' = calls + 1
  /\ \E id \in StatementIds, b \in BaseCurrencies,
        p \in {Parsed(st) : st \in IngestStatements} \cup {ExtractionFailure} :
       IngestStatement(id, p, b, NotCalled)
  /\ UNCHANGED <<config, advice, tasks>>

SyncCall ==
  /\ calls < MaxCalls
  /\ calls' = calls + 1
  /\ \E feed \in Feeds, b \in BaseCurrencies : Sync(feed, SyncWindow, b)
  /\ UNCHANGED <<config, advice, tasks>>

DeleteCall ==
  /\ calls < MaxCalls
  /\ calls' = calls + 1
  /\ \E id \in StatementIds : DeleteStatement(id)
  /\ UNCHANGED <<config, advice, tasks>>

Next == IngestCall \/ SyncCall \/ DeleteCall

Spec == Init /\ [][Next]_vars

-----------------------------------------------------------------------------
(* Specification SpecVerifier: ingestStatement under every construction    *)
(* of the verifier and every outcome of the external verification call.    *)

MaxVerifierCalls == 2

VerifierConfigs == [transport : BOOLEAN, enableFallbackChecks : BOOLEAN]

ExternalError == [code |-> "schema_violation", field |-> "transactions", severity |-> "ERROR"]

ExternalWarning == [code |-> "low_confidence", field |-> "transactions", severity |-> "WARNING"]

ExternalReport(statementId, status, issues) ==
  [statementId |-> statementId,
   status |-> status,
   confidence |-> 5,
   issues |-> issues,
   source |-> "boundaryml",
   reason |-> "boundary"]

\* the reports the external service may answer with
ExternalReports(statementId) ==
  { ExternalReport(statementId, "PASS", <<>>),
    ExternalReport(statementId, "REVIEW", <<ExternalWarning>>),
    ExternalReport(statementId, "FAIL", <<ExternalError>>),
    ExternalReport(statementId, "FAIL", <<ExternalWarning>>),
    ExternalReport(statementId, "PENDING", <<>>) }

\* what the transport can do when it is called
TransportOutcomes(statementId) ==
  { [kind |-> "throw"],
    [kind |-> "response", ok |-> FALSE],
    [kind |-> "response", ok |-> TRUE, truthy |-> FALSE] }
  \cup { [kind |-> "response", ok |-> TRUE, truthy |-> TRUE, body |-> r] :
           r \in ExternalReports(statementId) }

VerifierStatements ==
  { ParsedStatement("acct-1", "inst-1", ValidPeriod, 0, 5000, <<TxnRent("acct-1")>>),
    ParsedStatement("acct-1", "inst-1", ValidPeriod, 0, 10000,
                    <<TxnRent("acct-1"), TxnRent("acct-1")>>),
    ParsedStatement("acct-1", "inst-1", ValidPeriod, 0, 5000,
                    <<TxnRent("acct-1"), TxnRent("acct-1")>>),
    ParsedStatement("acct-2", "inst-1", ValidPeriod, 0, 9000, <<TxnRent("acct-2")>>) }

InitVerifier ==
  /\ StoresEmpty
  /\ config \in VerifierConfigs
  /\ tasks = EmptyMap
  /\ calls = 0
  /\ last = [call |-> [op |-> "none"], stage |-> "none"]

VerifierIngestCall ==
  /\ calls < MaxVerifierCalls
  /\ calls' = calls + 1
  /\ \E id \in StatementIds, st \in VerifierStatements :
       \E outcome \in IF config.transport THEN TransportOutcomes(id) ELSE {NotCalled} :
         IngestStatement(id, Parsed(st), NoBase, outcome)
  /\ UNCHANGED <<config, advice, tasks>>

NextVerifier == VerifierIngestCall

SpecVerifier == InitVerifier /\ [][NextVerifier]_vars

-----------------------------------------------------------------------------
(* Claims on the stores and on the verification step.                      *)

DedupeHashes(store) == {store[k].dedupeHash : k \in DOMAIN store}

StoredCount(store) == Cardinality(DOMAIN store)

\* the step is a completed ingestStatement or sync on the same source data
\* as the completed call before it
RunsSameSourceAgain ==
  /\ calls' = calls + 1
  /\ last.stage = "done"
  /\ last'.stage = "done"
  /\ last.call.op \in {"ingestStatement", "sync"}
  /\ last'.call.op = last.call.op
  /\ \/ last.call.op = "ingestStatement" /\ last'.call.parse = last.call.parse
     \/ last.call.op = "sync" /\ last'.call.feed = last.call.feed
                              /\ last'.call.window = last.call.window

LastWritten(written, h) ==
  written[CHOOSE i \in 1..Len(written) :
            /\ written[i].dedupeHash = h
            /\ \A j \in (i + 1)..Len(written) : written[j].dedupeHash # h]

\* C2: the transaction store holds at most one transaction per dedupe hash,
\* and after a call that upserted transactions the entry stored for each
\* upserted hash is the transaction upserted last under that hash.
C2_OneEntryPerHash ==
  /\ \A k1, k2 \in DOMAIN transactions :
       transactions[k1].dedupeHash = transactions[k2].dedupeHash => k1 = k2
  /\ (last.stage = "done" /\ last.call.op \in {"ingestStatement", "sync"}) =>
       \A i \in 1..Len(last.written) :
         \E k \in DOMAIN transactions :
           /\ transactions[k].dedupeHash = last.written[i].dedupeHash
           /\ transactions[k] = LastWritten(last.written, last.written[i].dedupeHash)

C2_Witness ==
  /\ last.stage = "done"
  /\ last.call.op = "ingestStatement"
  /\ last.overwrote
  /\ \E i \in 1..Len(last.written) :
       /\ MapHas(transactions, last.written[i].dedupeHash)
       /\ transactions[last.written[i].dedupeHash] = last.written[i]

Verified == last.call.op = "ingestStatement" /\ last.stage \in {"verify", "done"}

\* C3: validate saves the verifier's report whatever its status, raises
\* exactly when the report is FAIL with at least one ERROR issue, and a
\* REVIEW report does not abort: the ingestion completes.
C3_ValidateSavesAndRaises ==
  Verified =>
    LET r == last.validation.report IN
    /\ MapHas(verifications, r.statementId)
    /\ verifications[r.statementId] = r
    /\ last.validation.threw <=>
         (r.status = "FAIL" /\ \E i \in 1..Len(r.issues) : r.issues[i].severity = "ERROR")
    /\ (last.stage = "verify") <=> last.validation.threw
    /\ r.status = "REVIEW" =>
         /\ last.stage = "done"
         /\ MapHas(statements, last.call.statementId)
         /\ statements[last.call.statementId].verificationStatus = "REVIEW"

C3_Witness ==
  /\ Verified
  /\ last.stage = "done"
  /\ last.validation.report.status = "FAIL"
  /\ last.validation.by = "boundary"
  /\ MapHas(verifications, last.call.statementId)
  /\ verifications[last.call.statementId].status = "FAIL"

\* C4 as stated: whenever the report is FAIL, ingestStatement aborts and
\* the account, transaction and statement stores are left as they were.
C4_AnyFailAborts ==
  [][(/\ calls' = calls + 1
      /\ last'.call.op = "ingestStatement"
      /\ last'.stage \in {"verify", "done"}
      /\ last'.validation.report.status = "FAIL")
     => /\ last'.stage = "verify"
        /\ UNCHANGED <<accounts, transactions, statements>>]_vars

\* C4 amended: whenever the report is FAIL and has at least one ERROR
\* issue, ingestStatement aborts and the account, transaction and statement
\* stores are left as they were.
C4_FailWithErrorAborts ==
  [][(/\ calls' = calls + 1
      /\ last'.call.op = "ingestStatement"
      /\ last'.stage \in {"verify", "done"}
      /\ last'.validation.report.status = "FAIL"
      /\ \E i \in 1..Len(last'.validation.report.issues) :
           last'.validation.report.issues[i].severity = "ERROR")
     => /\ last'.stage = "verify"
        /\ UNCHANGED <<accounts, transactions, statements>>]_vars

C4_Witness ==
  /\ Verified
  /\ last.stage = "verify"
  /\ last.validation.report.status = "FAIL"
  /\ last.validation.by = "fallback"
  /\ Len(last.validation.report.issues) = 2
  /\ StoredCount(transactions) >= 1
  /\ StoredCount(statements) >= 1
  /\ ~MapHas(statements, last.call.statementId)

TerminalStatuses == {"PASS", "REVIEW", "FAIL"}

\* C5: whatever the outcome of the external verification call, the report
\* that validate returns, and the status stored on the ingested statement,
\* is PASS, REVIEW or FAIL and never PENDING.
C5_NeverPending ==
  Verified =>
    /\ last.validation.report.status \in TerminalStatuses
    /\ last.stage = "done" =>
         statements[last.call.statementId].verificationStatus \in TerminalStatuses

\* C6: with a transport and a 2xx response carrying a report, validate
\* returns that report and does not run the fallback checks; with no
\* transport, a non-2xx response or an exception, it runs the fallback
\* checks and returns their report; validate never raises.
C6_DelegateThenFallBack ==
  Verified =>
    LET o == last.call.outcome
        v == last.validation
    IN /\ ~v.verifierThrew
       /\ (config.transport /\ o.kind = "response" /\ o.ok /\ o.truthy) =>
            (v.by = "boundary" /\ v.report = o.body)
       /\ (\/ ~config.transport
           \/ o.kind = "throw"
           \/ o.kind = "response" /\ ~o.ok) =>
            /\ v.by = "fallback"
            /\ v.report = runFallbackChecks(last.call.parse.statement, last.call.statementId)

-----------------------------------------------------------------------------
(* Claims on deleteStatement.                                              *)

\* the step is a deleteStatement call on a stored statement
DeletesStored ==
  /\ calls' = calls + 1
  /\ last'.call.op = "deleteStatement"
  /\ last'.stage = "done"

\* the map after is the map before without the keys gone, values untouched
OnlyRemoved(before, after, gone) ==
  /\ DOMAIN after = DOMAIN before \ gone
  /\ \A k \in DOMAIN after : after[k] = before[k]

\* another stored statement references the account of the statement id
OtherStatementFor(id) ==
  \E s \in DOMAIN statements \ {id} :
    statements[s].account.id = statements[id].account.id

TransactionsOf(store, accountId) == {h \in DOMAIN store : store[h].accountId = accountId}

\* C11: deleteStatement(id) on a stored statement removes the statement,
\* every stored transaction of the statement's account and the report
\* stored for id, removes the account exactly when no other stored
\* statement references it, and leaves everything else as it was.
C11_DeleteCascade ==
  [][DeletesStored =>
       LET id == last'.call.statementId
           acct == statements[id].account.id
       IN /\ OnlyRemoved(statements, statements', {id})
          /\ OnlyRemoved(transactions, transactions', TransactionsOf(transactions, acct))
          /\ OnlyRemoved(verifications, verifications', {id})
          /\ OnlyRemoved(accounts, accounts',
                         IF OtherStatementFor(id) THEN {} ELSE {acct})]_vars

C11_Witness ==
  /\ last.call.op = "deleteStatement"
  /\ last.stage = "done"
  /\ ~MapHas(statements, last.call.statementId)
  /\ ~MapHas(verifications, last.call.statementId)
  /\ StoredCount(statements) = 1
  /\ StoredCount(accounts) = 1
  /\ StoredCount(verifications) = 1
  /\ StoredCount(transactions) >= 1

\* C12 as stated: when another stored statement references the account of
\* the deleted statement, the account's transactions stay in the store.
C12_SiblingKeepsTransactions ==
  [][(DeletesStored /\ OtherStatementFor(last'.call.statementId)) =>
       LET acct == statements[last'.call.statementId].account.id
       IN \A h \in TransactionsOf(transactions, acct) :
            MapHas(transactions', h) /\ transactions'[h] = transactions[h]]_vars

\* C12 amended: when another stored statement references the account of
\* the deleted statement, the account record and the other statement stay
\* stored, and the account's transactions are removed all the same.
C12_SiblingLosesTransactions ==
  [][(DeletesStored /\ OtherStatementFor(last'.call.statementId)) =>
       LET id == last'.call.statementId
           acct == statements[id].account.id
       IN /\ TransactionsOf(transactions', acct) = {}
          /\ MapHas(accounts', acct)
          /\ \E s \in DOMAIN statements' : statements'[s].account.id = acct]_vars

C12_Witness ==
  /\ last.call.op = "deleteStatement"
  /\ last.stage = "done"
  /\ \E s \in DOMAIN statements :
       /\ Len(statements[s].transactions) >= 1
       /\ MapHas(accounts, statements[s].account.id)
       /\ TransactionsOf(transactions, statements[s].account.id) = {}

-----------------------------------------------------------------------------
(* Claims on the report store and on extraction failures.                  *)

\* the step is an ingestStatement call that reached verification
VerifiesAgain ==
  /\ calls' = calls + 1
  /\ last'.call.op = "ingestStatement"
  /\ last'.stage \in {"verify", "done"}

\* C13 as stated: a stored report is never modified or replaced; verifying
\* again leaves every report stored before as it was.
C13_ReportsKept ==
  [][VerifiesAgain =>
       \A id \in DOMAIN verifications :
         MapHas(verifications', id) /\ verifications'[id] = verifications[id]]_vars

\* C13 amended: verifying again under a statement id creates a new report
\* that replaces the report stored for that id; the reports stored for
\* other ids stay as they were.
C13_ReportReplaced ==
  [][VerifiesAgain =>
       LET id == last'.call.statementId
       IN /\ DOMAIN verifications' = DOMAIN verifications \cup {id}
          /\ verifications'[id] = last'.validation.report
          /\ \A other \in DOMAIN verifications \ {id} :
               verifications'[other] = verifications[other]]_vars

C13_Witness ==
  /\ last.call.op = "ingestStatement"
  /\ last.stage = "verify"
  /\ MapHas(statements, last.call.statementId)
  /\ statements[last.call.statementId].verificationStatus = "PASS"
  /\ verifications[last.call.statementId].status = "FAIL"
  /\ StoredCount(verifications) = 2

\* C14: when the extractor fails, ingestStatement stops there: the verifier
\* is not invoked and the call writes no report, account, transaction or
\* statement.
C14_ExtractionFailureWritesNothing ==
  [][(/\ calls' = calls + 1
      /\ last'.call.op = "ingestStatement"
      /\ ~last'.call.parse.ok)
     => /\ last'.stage = "extract"
        /\ DOMAIN last' = {"call", "stage"}
        /\ UNCHANGED <<accounts, statements, transactions, verifications>>]_vars

C14_Witness ==
  /\ last.call.op = "ingestStatement"
  /\ last.stage = "extract"
  /\ ~last.call.parse.ok
  /\ MapHas(statements, last.call.statementId)
  /\ MapHas(verifications, last.call.statementId)
  /\ StoredCount(transactions) >= 1

-----------------------------------------------------------------------------
(* Specification SpecFx: convert and setRate calls on one converter,       *)
(* constructed with or without initial rates, up to MaxFxCalls calls.      *)

MaxFxCalls == 3

FxCurrencies == {USD, usd, EUR}

FxAmounts == {100000, -2500}

FxRates == {2, 3}

FxDates == {Calendar[1], Calendar[2]}

InitialRates ==
  {<<>>,
   <<[fromCurrency |-> EUR, toCurrency |-> usd, rate |-> 2, asOf |-> Calendar[1]]>>}

InitFx ==
  /\ accounts = EmptyMap
  /\ statements = EmptyMap
  /\ transactions = EmptyMap
  /\ verifications = EmptyMap
  /\ advice = EmptyMap
  /\ config = AppContainerConfig
  /\ tasks = EmptyMap
  /\ calls = 0
  /\ last = [call |-> [op |-> "none"], stage |-> "none"]
  /\ \E initialRates \in InitialRates : cache = seedRates(EmptyMap, initialRates)

ConvertCall ==
  /\ calls < MaxFxCalls
  /\ calls' = calls + 1
  /\ \E amount \in FxAmounts, fromCurrency \in FxCurrencies, toCurrency \in FxCurrencies,
        asOf \in FxDates :
       \E r \in {convert(cache, amount, fromCurrency, toCurrency, asOf)} :
         /\ cache' = r.cache
         /\ last' = [call |-> [op |-> "convert", amount |-> amount,
                               fromCurrency |-> fromCurrency, toCurrency |-> toCurrency,
                               asOf |-> asOf],
                     stage |-> "done",
                     result |-> [convertedAmount |-> r.convertedAmount, rate |-> r.rate]]
  /\ UNCHANGED <<accounts, statements, transactions, verifications, advice, config, tasks>>

SetRateCall ==
  /\ calls < MaxFxCalls
  /\ calls' = calls + 1
  /\ \E fromCurrency \in FxCurrencies, toCurrency \in FxCurrencies, rate \in FxRates :
       /\ cache' = setRate(cache, fromCurrency, toCurrency, rate, Calendar[2])
       /\ last' = [call |-> [op |-> "setRate", fromCurrency |-> fromCurrency,
                             toCurrency |-> toCurrency, rate |-> rate, asOf |-> Calendar[2]],
                   stage |-> "done"]
  /\ UNCHANGED <<accounts, statements, transactions, verifications, advice, config, tasks>>

NextFx == ConvertCall \/ SetRateCall

SpecFx == InitFx /\ [][NextFx]_vars

\* the step is a convert call
Converts == calls' = calls + 1 /\ last'.call.op = "convert"

\* the cache key of the conversion of the step, spelled out
ConvertedPair == <<toUpperCase(last'.call.fromCurrency), toUpperCase(last'.call.toCurrency)>>

ReversePair == <<toUpperCase(last'.call.toCurrency), toUpperCase(last'.call.fromCurrency)>>

\* C15: convert(amount, c, c, date) returns the amount unchanged with
\* rate 1 and leaves the rate cache exactly as it was.
C15_IdentityConversion ==
  [][(Converts /\ last'.call.fromCurrency = last'.call.toCurrency) =>
       /\ last'.result.convertedAmount = last'.call.amount
       /\ last'.result.rate = 1
       /\ cache' = cache]_vars

C15_Witness ==
  /\ last.call.op = "convert"
  /\ last.call.fromCurrency = last.call.toCurrency
  /\ last.call.amount = 100000
  /\ last.result.convertedAmount = 100000
  /\ StoredCount(cache) >= 1
  /\ \A k \in DOMAIN cache : k[1] # k[2]

\* C16 as stated: the cache is keyed by the unordered pair, so an entry
\* recorded for (A, B) is the one consulted when converting from B to A.
C16_UnorderedPair ==
  [][(/\ Converts
      /\ last'.call.fromCurrency # last'.call.toCurrency
      /\ MapHas(cache, ReversePair)
      /\ ~MapHas(cache, ConvertedPair))
     => /\ last'.result.rate = cache[ReversePair].rate
        /\ cache' = cache]_vars

\* C16 amended: the cache is keyed by the ordered pair (from, to) of the
\* upper-cased codes: an entry recorded for (A, B) is the one consulted when
\* converting from A to B, and is neither consulted nor changed when
\* converting from B to A, which has an entry of its own.
C16_OrderedPair ==
  [][(Converts /\ last'.call.fromCurrency # last'.call.toCurrency) =>
       /\ MapHas(cache, ConvertedPair) =>
            /\ last'.result.rate = cache[ConvertedPair].rate
            /\ last'.result.convertedAmount = last'.call.amount * cache[ConvertedPair].rate
       /\ (MapHas(cache, ReversePair) /\ ~MapHas(cache, ConvertedPair)) =>
            /\ last'.result.rate = 1
            /\ MapHas(cache', ConvertedPair)
            /\ cache'[ReversePair] = cache[ReversePair]]_vars

C16_Witness ==
  /\ last.call.op = "convert"
  /\ last.call.fromCurrency = USD
  /\ last.call.toCurrency = EUR
  /\ last.result.rate = 1
  /\ MapHas(cache, <<EUR, USD>>)
  /\ cache[<<EUR, USD>>].rate = 3
  /\ MapHas(cache, <<USD, EUR>>)
  /\ cache[<<USD, EUR>>].rate = 1

\* C17: convert for a pair with no cached rate uses rate 1 and records that
\* entry; convert returns the cached rate of a pair that has one and never
\* changes an entry that is already cached, so that only setRate changes
\* the rate later converts of the pair return.
C17_PlaceholderIsStable ==
  [][(calls' = calls + 1) =>
       /\ (Converts /\ last'.call.fromCurrency # last'.call.toCurrency) =>
            /\ ~MapHas(cache, ConvertedPair) =>
                 /\ last'.result.rate = 1
                 /\ DOMAIN cache' = DOMAIN cache \cup {ConvertedPair}
                 /\ cache'[ConvertedPair] = [rate |-> 1, asOf |-> last'.call.asOf]
            /\ MapHas(cache, ConvertedPair) =>
                 last'.result.rate = cache[ConvertedPair].rate
       /\ last'.call.op # "setRate" =>
            \A k \in DOMAIN cache : MapHas(cache', k) /\ cache'[k] = cache[k]]_vars

C17_Witness ==
  /\ calls = 3
  /\ last.call.op = "convert"
  /\ last.call.fromCurrency = usd
  /\ last.call.toCurrency = EUR
  /\ last.call.asOf = Calendar[2]
  /\ last.result.rate = 1
  /\ cache = <<USD, EUR>> :> [rate |-> 1, asOf |-> Calendar[1]]

-----------------------------------------------------------------------------
(* Categorizer (RuleBasedCategorizer).  A rule is the alternatives of its  *)
(* pattern /\b(w1|w2|...)\b/i with its category and subcategory; a         *)
(* categorizer confidence is in hundredths.                                *)

rules ==
  <<
     [category |-> "Income", subCategory |-> "Salary",
      words |-> {<<"p", "a", "y", "r", "o", "l", "l">>,
               <<"s", "a", "l", "a", "r", "y">>,
               <<"p", "a", "y", "c", "h", "e", "c", "k">>,
               <<"w", "a", "g", "e">>,
               <<"d", "i", "r", "e", "c", "t", " ", "d", "e", "p", "o", "s", "i", "t">>}],
     [category |-> "Income", subCategory |-> "Transfer",
      words |-> {<<"t", "r", "a", "n", "s", "f", "e", "r", " ", "f", "r", "o", "m">>,
               <<"r", "e", "c", "e", "i", "v", "e", "d">>,
               <<"p", "a", "y", "m", "e", "n", "t", " ", "r", "e", "c", "e", "i", "v", "e", "d">>,
               <<"r", "e", "f", "u", "n", "d">>}],
     [category |-> "Income", subCategory |-> "Investment Income",
      words |-> {<<"i", "n", "t", "e", "r", "e", "s", "t">>,
               <<"d", "i", "v", "i", "d", "e", "n", "d">>}],
     [category |-> "Food & Dining", subCategory |-> "Restaurants",
      words |-> {<<"r", "e", "s", "t", "a", "u", "r", "a", "n", "t">>,
               <<"r", "e", "s", "t", "a", "u", "r", "a", "n", "t", "e">>,
               <<"d", "i", "n", "i", "n", "g">>,
               <<"d", "i", "n", "e", "r">>,
               <<"b", "i", "s", "t", "r", "o">>,
               <<"p", "i", "z", "z", "e", "r", "i", "a">>,
               <<"s", "u", "s", "h", "i">>,
               <<"t", "a", "q", "u", "e", "r", "i", "a">>,
               <<"b", "u", "r", "g", "e", "r">>}],
     [category |-> "Food & Dining", subCategory |-> "Coffee Shops",
      words |-> {<<"c", "o", "f", "f", "e", "e">>,
               <<"c", "a", "f", "e">>,
               <<"c", "a", "f", "e", "t", "e", "r", "i", "a">>,
               <<"s", "t", "a", "r", "b", "u", "c", "k", "s">>,
               <<"d", "u", "n", "k", "i", "n">>,
               <<"e", "s", "p", "r", "e", "s", "s", "o">>,
               <<"c", "a", "p", "p", "u", "c", "c", "i", "n", "o">>}],
     [category |-> "Food & Dining", subCategory |-> "Bars & Alcohol",
      words |-> {<<"b", "a", "r">>,
               <<"p", "u", "b">>,
               <<"b", "r", "e", "w", "e", "r", "y">>,
               <<"t", "a", "p", "r", "o", "o", "m">>,
               <<"c", "a", "n", "t", "i", "n", "a">>}],
     [category |-> "Food & Dining", subCategory |-> "Food Delivery",
      words |-> {<<"r", "a", "p", "p", "i">>,
               <<"u", "b", "e", "r", " ", "e", "a", "t", "s">>,
               <<"u", "b", "e", "r", "e", "a", "t", "s">>,
               <<"d", "o", "o", "r", "d", "a", "s", "h">>,
               <<"g", "r", "u", "b", "h", "u", "b">>,
               <<"d", "e", "l", "i", "v", "e", "r", "o", "o">>,
               <<"p", "o", "s", "t", "m", "a", "t", "e", "s">>,
               <<"d", "e", "l", "i", "v", "e", "r", "y">>}],
     [category |-> "Food & Dining", subCategory |-> "Groceries",
      words |-> {<<"g", "r", "o", "c", "e", "r", "y">>,
               <<"g", "r", "o", "c", "e", "r", "i", "e", "s">>,
               <<"s", "u", "p", "e", "r", "m", "a", "r", "k", "e", "t">>,
               <<"s", "u", "p", "e", "r", "m", "e", "r", "c", "a", "d", "o">>,
               <<"m", "a", "r", "k", "e", "t">>,
               <<"w", "h", "o", "l", "e", " ", "f", "o", "o", "d", "s">>,
               <<"t", "r", "a", "d", "e", "r", " ", "j", "o", "e">>,
               <<"s", "a", "f", "e", "w", "a", "y">>,
               <<"k", "r", "o", "g", "e", "r">>,
               <<"w", "a", "l", "m", "a", "r", "t">>,
               <<"t", "a", "r", "g", "e", "t">>,
               <<"c", "o", "s", "t", "c", "o">>}],
     [category |-> "Transportation", subCategory |-> "Ride Share",
      words |-> {<<"u", "b", "e", "r">>,
               <<"l", "y", "f", "t">>,
               <<"t", "a", "x", "i">>,
               <<"c", "a", "b">>,
               <<"r", "i", "d", "e", "s", "h", "a", "r", "e">>,
               <<"b", "e", "a", "t">>,
               <<"d", "i", "d", "i">>,
               <<"c", "a", "b", "i", "f", "y">>}],
     [category |-> "Transportation", subCategory |-> "Public Transit",
      words |-> {<<"m", "e", "t", "r", "o">>,
               <<"s", "u", "b", "w", "a", "y">>,
               <<"t", "r", "a", "n", "s", "i", "t">>,
               <<"b", "u", "s">>,
               <<"t", "r", "a", "i", "n">>,
               <<"r", "a", "i", "l", "w", "a", "y">>,
               <<"m", "r", "t">>}],
     [category |-> "Transportation", subCategory |-> "Gas & Fuel",
      words |-> {<<"g", "a", "s">>,
               <<"f", "u", "e", "l">>,
               <<"p", "e", "t", "r", "o", "l">>,
               <<"g", "a", "s", "o", "l", "i", "n", "e">>,
               <<"s", "h", "e", "l", "l">>,
               <<"c", "h", "e", "v", "r", "o", "n">>,
               <<"e", "x", "x", "o", "n">>,
               <<"b", "p">>}],
     [category |-> "Transportation", subCategory |-> "Parking",
      words |-> {<<"p", "a", "r", "k", "i", "n", "g">>,
               <<"p", "a", "r", "k">>}],
     [category |-> "Travel", subCategory |-> "Flights",
      words |-> {<<"f", "l", "i", "g", "h", "t">>,
               <<"a", "i", "r", "l", "i", "n", "e">>,
               <<"a", "i", "r", "w", "a", "y", "s">>,
               <<"a", "v", "i", "a", "t", "i", "o", "n">>}],
     [category |-> "Shopping", subCategory |-> "Online Shopping",
      words |-> {<<"a", "m", "a", "z", "o", "n">>,
               <<"e", "b", "a", "y">>,
               <<"e", "t", "s", "y">>,
               <<"m", "e", "r", "c", "a", "d", "o", " ", "l", "i", "b", "r", "e">>}],
     [category |-> "Shopping", subCategory |-> "General Merchandise",
      words |-> {<<"t", "i", "e", "n", "d", "a">>,
               <<"s", "t", "o", "r", "e">>,
               <<"s", "h", "o", "p">>,
               <<"b", "o", "u", "t", "i", "q", "u", "e">>,
               <<"r", "e", "t", "a", "i", "l">>}],
     [category |-> "Shopping", subCategory |-> "Clothing",
      words |-> {<<"c", "l", "o", "t", "h", "i", "n", "g">>,
               <<"a", "p", "p", "a", "r", "e", "l">>,
               <<"f", "a", "s", "h", "i", "o", "n">>,
               <<"z", "a", "r", "a">>,
               <<"h", "&", "m">>,
               <<"u", "n", "i", "q", "l", "o">>,
               <<"n", "i", "k", "e">>,
               <<"a", "d", "i", "d", "a", "s">>}],
     [category |-> "Shopping", subCategory |-> "Electronics",
      words |-> {<<"e", "l", "e", "c", "t", "r", "o", "n", "i", "c", "s">>,
               <<"a", "p", "p", "l", "e">>,
               <<"b", "e", "s", "t", " ", "b", "u", "y">>,
               <<"m", "i", "c", "r", "o", "s", "o", "f", "t">>}],
     [category |-> "Personal Care", subCategory |-> "Hair & Beauty",
      words |-> {<<"s", "h", "a", "v", "e">>,
               <<"b", "a", "r", "b", "e", "r">>,
               <<"s", "a", "l", "o", "n">>,
               <<"h", "a", "i", "r", "c", "u", "t">>,
               <<"s", "p", "a">>,
               <<"b", "e", "a", "u", "t", "y">>,
               <<"c", "o", "s", "m", "e", "t", "i", "c">>,
               <<"n", "a", "i", "l">>}],
     [category |-> "Personal Care", subCategory |-> "Fitness",
      words |-> {<<"g", "y", "m">>,
               <<"f", "i", "t", "n", "e", "s", "s">>,
               <<"y", "o", "g", "a">>,
               <<"p", "i", "l", "a", "t", "e", "s">>,
               <<"w", "o", "r", "k", "o", "u", "t">>,
               <<"p", "e", "l", "o", "t", "o", "n">>}],
     [category |-> "Healthcare", subCategory |-> "Pharmacy",
      words |-> {<<"p", "h", "a", "r", "m", "a", "c", "y">>,
               <<"d", "r", "u", "g">>,
               <<"c", "v", "s">>,
               <<"w", "a", "l", "g", "r", "e", "e", "n", "s">>,
               <<"m", "e", "d", "i", "c", "i", "n", "e">>,
               <<"p", "r", "e", "s", "c", "r", "i", "p", "t", "i", "o", "n">>}],
     [category |-> "Healthcare", subCategory |-> "Medical",
      words |-> {<<"d", "o", "c", "t", "o", "r">>,
               <<"d", "e", "n", "t", "i", "s", "t">>,
               <<"c", "l", "i", "n", "i", "c">>,
               <<"h", "o", "s", "p", "i", "t", "a", "l">>,
               <<"m", "e", "d", "i", "c", "a", "l">>,
               <<"h", "e", "a", "l", "t", "h">>}],
     [category |-> "Housing", subCategory |-> "Rent",
      words |-> {<<"r", "e", "n", "t">>,
               <<"l", "e", "a", "s", "e">>,
               <<"l", "a", "n", "d", "l", "o", "r", "d">>}],
     [category |-> "Housing", subCategory |-> "Mortgage",
      words |-> {<<"m", "o", "r", "t", "g", "a", "g", "e">>,
               <<"h", "o", "m", "e", " ", "l", "o", "a", "n">>}],
     [category |-> "Bills & Utilities", subCategory |-> "Electricity",
      words |-> {<<"e", "l", "e", "c", "t", "r", "i", "c">>,
               <<"e", "l", "e", "c", "t", "r", "i", "c", "i", "t", "y">>,
               <<"p", "o", "w", "e", "r">>,
               <<"u", "t", "i", "l", "i", "t", "y">>}],
     [category |-> "Bills & Utilities", subCategory |-> "Water",
      words |-> {<<"w", "a", "t", "e", "r">>,
               <<"s", "e", "w", "e", "r">>}],
     [category |-> "Bills & Utilities", subCategory |-> "Internet",
      words |-> {<<"i", "n", "t", "e", "r", "n", "e", "t">>,
               <<"w", "i", "f", "i">>,
               <<"b", "r", "o", "a", "d", "b", "a", "n", "d">>,
               <<"c", "o", "m", "c", "a", "s", "t">>,
               <<"s", "p", "e", "c", "t", "r", "u", "m">>,
               <<"a", "t", "&", "t">>}],
     [category |-> "Bills & Utilities", subCategory |-> "Phone",
      words |-> {<<"p", "h", "o", "n", "e">>,
               <<"m", "o", "b", "i", "l", "e">>,
               <<"c", "e", "l", "l">>,
               <<"v", "e", "r", "i", "z", "o", "n">>,
               <<"t", "-", "m", "o", "b", "i", "l", "e">>,
               <<"s", "p", "r", "i", "n", "t">>}],
     [category |-> "Entertainment", subCategory |-> "Streaming Services",
      words |-> {<<"n", "e", "t", "f", "l", "i", "x">>,
               <<"h", "u", "l", "u">>,
               <<"d", "i", "s", "n", "e", "y">>,
               <<"s", "p", "o", "t", "i", "f", "y">>,
               <<"a", "p", "p", "l", "e", " ", "m", "u", "s", "i", "c">>,
               <<"y", "o", "u", "t", "u", "b", "e", " ", "p", "r", "e", "m", "i", "u", "m">>,
               <<"h", "b", "o">>,
               <<"p", "r", "i", "m", "e", " ", "v", "i", "d", "e", "o">>}],
     [category |-> "Entertainment", subCategory |-> "Movies",
      words |-> {<<"m", "o", "v", "i", "e">>,
               <<"c", "i", "n", "e", "m", "a">>,
               <<"t", "h", "e", "a", "t", "e", "r">>,
               <<"t", "h", "e", "a", "t", "r", "e">>}],
     [category |-> "Entertainment", subCategory |-> "Events",
      words |-> {<<"c", "o", "n", "c", "e", "r", "t">>,
               <<"f", "e", "s", "t", "i", "v", "a", "l">>,
               <<"e", "v", "e", "n", "t">>,
               <<"t", "i", "c", "k", "e", "t">>}],
     [category |-> "Entertainment", subCategory |-> "Subscriptions",
      words |-> {<<"s", "u", "b", "s", "c", "r", "i", "p", "t", "i", "o", "n">>,
               <<"m", "e", "m", "b", "e", "r", "s", "h", "i", "p">>}],
     [category |-> "Travel", subCategory |-> "Lodging",
      words |-> {<<"h", "o", "t", "e", "l">>,
               <<"m", "o", "t", "e", "l">>,
               <<"i", "n", "n">>,
               <<"r", "e", "s", "o", "r", "t">>,
               <<"a", "i", "r", "b", "n", "b">>,
               <<"b", "o", "o", "k", "i", "n", "g">>,
               <<"e", "x", "p", "e", "d", "i", "a">>}],
     [category |-> "Travel", subCategory |-> "General Travel",
      words |-> {<<"v", "a", "c", "a", "t", "i", "o", "n">>,
               <<"t", "r", "i", "p">>,
               <<"t", "r", "a", "v", "e", "l">>,
               <<"t", "o", "u", "r", "i", "s", "m">>}],
     [category |-> "Investments", subCategory |-> "Brokerage",
      words |-> {<<"i", "n", "v", "e", "s", "t", "m", "e", "n", "t">>,
               <<"b", "r", "o", "k", "e", "r", "a", "g", "e">>,
               <<"e", "t", "f">>,
               <<"s", "t", "o", "c", "k">>,
               <<"m", "u", "t", "u", "a", "l", " ", "f", "u", "n", "d">>}],
     [category |-> "Cash & ATM", subCategory |-> "ATM Withdrawal",
      words |-> {<<"a", "t", "m">>,
               <<"w", "i", "t", "h", "d", "r", "a", "w", "a", "l">>,
               <<"c", "a", "s", "h">>}],
     [category |-> "Fees & Charges", subCategory |-> "Bank Fees",
      words |-> {<<"f", "e", "e">>,
               <<"c", "h", "a", "r", "g", "e">>,
               <<"s", "e", "r", "v", "i", "c", "e", " ", "c", "h", "a", "r", "g", "e">>}],
     [category |-> "Insurance", subCategory |-> "Insurance Premium",
      words |-> {<<"i", "n", "s", "u", "r", "a", "n", "c", "e">>,
               <<"p", "o", "l", "i", "c", "y">>}],
     [category |-> "Education", subCategory |-> "Tuition & Fees",
      words |-> {<<"t", "u", "i", "t", "i", "o", "n">>,
               <<"s", "c", "h", "o", "o", "l">>,
               <<"u", "n", "i", "v", "e", "r", "s", "i", "t", "y">>,
               <<"c", "o", "l", "l", "e", "g", "e">>,
               <<"e", "d", "u", "c", "a", "t", "i", "o", "n">>,
               <<"c", "o", "u", "r", "s", "e">>}],
     [category |-> "Education", subCategory |-> "Books & Supplies",
      words |-> {<<"b", "o", "o", "k">>,
               <<"t", "e", "x", "t", "b", "o", "o", "k">>,
               <<"l", "e", "a", "r", "n", "i", "n", "g">>}]
  >>

\* txn.amount > 500, in thousandths
largeAmountLimit == 500000

\* the pieces of desc, in lower case, that lie between two word boundaries
\* and begin and end with a word character: what /\b(...)\b/i can match,
\* since every alternative begins and ends with a word character
WordsIn(desc) ==
  LET lower == toLowerCase(desc)
      n == Len(desc)
      starts == {i \in 1..n : IsWordChar(desc[i]) /\ (i = 1 \/ ~IsWordChar(desc[i - 1]))}
      ends == {j \in 1..n : IsWordChar(desc[j]) /\ (j = n \/ ~IsWordChar(desc[j + 1]))}
  IN {SubSeq(lower, i, j) : <<i, j>> \in {p \in starts \X ends : p[1] <= p[2]}}

\* rule.test(desc), given the pieces found in desc: one of them is one of
\* the rule's alternatives
ruleTest(rule, found) == rule.words \cap found # {}

\* variant: the last rule that accepts the description is taken
findLastRule(desc) ==
  LET found == WordsIn(desc)
      accepting == {i \in 1..Len(rules) : ruleTest(rules[i], found)}
  IN IF accepting = {} THEN 0
     ELSE CHOOSE i \in accepting : \A j \in accepting : j <= i

\* rules.find(...): the index of the first rule that accepts the
\* description, 0 for undefined
findRule(desc) ==
  LET found == WordsIn(desc)
      accepting == {i \in 1..Len(rules) : ruleTest(rules[i], found)}
  IN IF accepting = {} THEN 0
     ELSE CHOOSE i \in accepting : \A j \in accepting : i <= j

\* variant: an amount of exactly the limit counts as large
defaultCategoryInclusive(amount) ==
  IF amount > 0
    THEN [category |-> "Income", subCategory |-> "Other Income", confidence |-> 40]
  ELSE IF Abs(amount) >= largeAmountLimit
    THEN [category |-> "Bills & Utilities", subCategory |-> "Other Bills", confidence |-> 35]
  ELSE [category |-> "Shopping", subCategory |-> "General Merchandise", confidence |-> 35]

\* the default by sign and size of the amount
defaultCategory(amount) ==
  IF amount > 0
    THEN [category |-> "Income", subCategory |-> "Other Income", confidence |-> 40]
  ELSE IF Abs(amount) > largeAmountLimit
    THEN [category |-> "Bills & Utilities", subCategory |-> "Other Bills", confidence |-> 35]
  ELSE [category |-> "Shopping", subCategory |-> "General Merchandise", confidence |-> 35]

\* the body of the loop: the assignment made for one transaction
categorizeOne(txn) ==
  LET rule == findRule(txn.description)
      chosen == IF rule # 0
                  THEN [category |-> rules[rule].category,
                        subCategory |-> rules[rule].subCategory, confidence |-> 75]
                  ELSE defaultCategory(txn.amount)
  IN [dedupeHash |-> txn.dedupeHash, category |-> chosen.category,
      subCategory |-> chosen.subCategory, confidence |-> chosen.confidence]

\* categorize: the record of assignments keyed by dedupe hash
RECURSIVE categorizeInto(_, _)
categorizeInto(categorized, txns) ==
  IF txns = <<>> THEN categorized
  ELSE categorizeInto(MapSet(categorized, Head(txns).dedupeHash, categorizeOne(Head(txns))),
                      Tail(txns))

categorize(txns) == categorizeInto(EmptyMap, txns)

-----------------------------------------------------------------------------
(* Specification SpecCategorizer: categorize on batches of up to MaxBatch  *)
(* transactions of one account and day.                                    *)

MaxBatch == 2

DescUberEats == <<"U", "b", "e", "r", " ", "E", "a", "t", "s">>

DescAppleMusic == <<"a", "p", "p", "l", "e", " ", "m", "u", "s", "i", "c">>

DescParent == <<"p", "a", "r", "e", "n", "t">>

DescBarTab == <<"b", "a", "r", "_", "t", "a", "b">>

DescHandM == <<"H", "&", "M">>

DescHSpaceM == <<"h", " ", "m">>

CategorizerDescriptions ==
  {DescUberEats, DescAppleMusic, DescParent, DescBarTab, DescHandM, DescHSpaceM}

CategorizerAmounts == {600000, -1000, -500000, -500001}

\* the input that mapTransactions builds for a parsed transaction
CategorizationInput(description, amount) ==
  [dedupeHash |-> buildTransactionHash([accountId |-> "acct-1",
                                        postedDate |-> Calendar[1],
                                        amount |-> amount,
                                        currency |-> USD,
                                        normalizedDescription |-> normalizeDescription(description)]),
   description |-> description,
   amount |-> amount,
   currency |-> USD]

CategorizerPool ==
  {CategorizationInput(d, a) : d \in CategorizerDescriptions, a \in CategorizerAmounts}

InitCategorizer ==
  /\ StoresEmpty
  /\ config = AppContainerConfig
  /\ tasks = EmptyMap
  /\ calls = 0
  /\ last = [call |-> [op |-> "none"], stage |-> "none"]

\* one call per behaviour: categorize keeps no state between calls
CategorizeCall ==
  /\ last.stage = "none"
  /\ \E txns \in SeqUpTo(CategorizerPool, MaxBatch) :
       last' = [call |-> [op |-> "categorize", transactions |-> txns],
                stage |-> "done",
                result |-> categorize(txns)]
  /\ UNCHANGED <<stores, config, advice, tasks, calls>>

NextCategorizer == CategorizeCall

SpecCategorizer == InitCategorizer /\ [][NextCategorizer]_vars

\* categorize has returned
Categorized == last.call.op = "categorize" /\ last.stage = "done"

\* the input of the batch that carries the hash h last: the assignment of
\* a hash is written once per input carrying it, in batch order
LastInput(txns, h) ==
  txns[CHOOSE i \in 1..Len(txns) :
         /\ txns[i].dedupeHash = h
         /\ \A j \in (i + 1)..Len(txns) : txns[j].dedupeHash # h]

\* the rules that accept the description
Accepting(desc) == {r \in 1..Len(rules) : ruleTest(rules[r], WordsIn(desc))}

Assigned(entry, category, subCategory, confidence) ==
  /\ entry.category = category
  /\ entry.subCategory = subCategory
  /\ entry.confidence = confidence

\* C18: categorize returns an assignment for every input hash, and an
\* input that no rule accepts is assigned Income/Other Income (0.4) when
\* its amount is positive, Bills & Utilities/Other Bills (0.35) when it is
\* negative with magnitude above 500, and Shopping/General Merchandise
\* (0.35) when it is negative with a smaller magnitude.
C18_DefaultsBySignAndSize ==
  Categorized =>
    LET txns == last.call.transactions
        res == last.result
    IN /\ DOMAIN res = {txns[i].dedupeHash : i \in 1..Len(txns)}
       /\ \A h \in DOMAIN res :
            LET t == LastInput(txns, h)
            IN /\ res[h].dedupeHash = h
               /\ Accepting(t.description) = {} =>
                    /\ t.amount > 0 => Assigned(res[h], "Income", "Other Income", 40)
                    /\ (t.amount < 0 /\ -t.amount > 500000) =>
                         Assigned(res[h], "Bills & Utilities", "Other Bills", 35)
                    /\ (t.amount < 0 /\ -t.amount <= 500000) =>
                         Assigned(res[h], "Shopping", "General Merchandise", 35)

C18_Witness ==
  /\ Categorized
  /\ Len(last.call.transactions) = 2
  /\ last.call.transactions[1].description = DescParent
  /\ last.call.transactions[1].amount = -500001
  /\ last.call.transactions[2].description = DescBarTab
  /\ last.call.transactions[2].amount = 600000
  /\ \E h1, h2 \in DOMAIN last.result :
       /\ Assigned(last.result[h1], "Bills & Utilities", "Other Bills", 35)
       /\ Assigned(last.result[h2], "Income", "Other Income", 40)

\* C19: the rules are tried in list order and the first rule that accepts
\* the description decides category and subcategory, with confidence 0.75,
\* whatever the amount and whatever later rules accept it too.
C19_FirstRuleWins ==
  Categorized =>
    LET txns == last.call.transactions
        res == last.result
    IN \A h \in DOMAIN res :
         LET t == LastInput(txns, h)
             accepting == Accepting(t.description)
         IN accepting # {} =>
              \E r \in accepting :
                /\ \A q \in accepting : r <= q
                /\ Assigned(res[h], rules[r].category, rules[r].subCategory, 75)

C19_Witness ==
  /\ Categorized
  /\ Len(last.call.transactions) = 2
  /\ last.call.transactions[1].description = DescUberEats
  /\ last.call.transactions[1].amount = 600000
  /\ last.call.transactions[2].description = DescAppleMusic
  /\ last.call.transactions[2].amount = -500001
  /\ Cardinality(Accepting(DescUberEats)) = 2
  /\ Cardinality(Accepting(DescAppleMusic)) = 2
  /\ \E h1, h2 \in DOMAIN last.result :
       /\ Assigned(last.result[h1], "Food & Dining", "Food Delivery", 75)
       /\ Assigned(last.result[h2], "Shopping", "Electronics", 75)

-----------------------------------------------------------------------------
(* Claim on a first ingestion.                                             *)

\* the step is an ingestStatement call on an empty store that completes
\* with verification status PASS
IngestsOnEmptyWithPass ==
  /\ calls' = calls + 1
  /\ accounts = EmptyMap
  /\ statements = EmptyMap
  /\ transactions = EmptyMap
  /\ verifications = EmptyMap
  /\ last'.call.op = "ingestStatement"
  /\ last'.stage = "done"
  /\ last'.validation.report.status = "PASS"

\* the dedupe hashes of the transactions a parsed statement lists
ListedHashes(parsed) ==
  {buildTransactionHash([accountId |-> parsed.account.accountId,
                         postedDate |-> parsed.transactions[i].postedDate,
                         amount |-> parsed.transactions[i].amount,
                         currency |-> parsed.transactions[i].currency,
                         normalizedDescription |->
                           normalizeDescription(parsed.transactions[i].description)]) :
     i \in 1..Len(parsed.transactions)}

\* C20 as stated: after such a call the ledger holds as many transactions
\* of the account as the statement lists, the stored account balance is
\* the closing balance, and exactly one report, with status PASS, is stored.
C20_LedgerMatchesListing ==
  [][IngestsOnEmptyWithPass =>
       LET parsed == last'.call.parse.statement
           acct == parsed.account.accountId
       IN /\ Cardinality(TransactionsOf(transactions', acct)) = Len(parsed.transactions)
          /\ accounts'[acct].balance = parsed.closingBalance
          /\ DOMAIN verifications' = {last'.call.statementId}
          /\ verifications'[last'.call.statementId].status = "PASS"]_vars

\* C20 amended: after such a call the ledger holds as many transactions of
\* the account as the statement lists distinct dedupe hashes, the stored
\* account balance is the closing balance, and exactly one report, with
\* status PASS, is stored.
C20_LedgerMatchesDistinctHashes ==
  [][IngestsOnEmptyWithPass =>
       LET parsed == last'.call.parse.statement
           acct == parsed.account.accountId
       IN /\ Cardinality(TransactionsOf(transactions', acct))
               = Cardinality(ListedHashes(parsed))
          /\ DOMAIN transactions' = ListedHashes(parsed)
          /\ accounts'[acct].balance = parsed.closingBalance
          /\ DOMAIN verifications' = {last'.call.statementId}
          /\ verifications'[last'.call.statementId].status = "PASS"]_vars

C20_Witness ==
  /\ calls = 1
  /\ last.call.op = "ingestStatement"
  /\ last.stage = "done"
  /\ last.validation.report.status = "PASS"
  /\ Len(last.call.parse.statement.transactions) = 2
  /\ StoredCount(transactions) = 1
  /\ StoredCount(verifications) = 1
  /\ accounts[last.call.parse.statement.account.accountId].balance
       = last.call.parse.statement.closingBalance

-----------------------------------------------------------------------------
\* PdfStatementParser: extraction of the transaction list from statement text

\* A statement line as the line templates see it: the date, description and
\* amount captures of the first matching template, or no match at all.
NoMatch == [matched |-> FALSE]

LineMatch(dateStr, description, amount) ==
  [matched |-> TRUE, dateStr |-> dateStr, description |-> description, amount |-> amount]

\* header labels that are rejected as descriptions
headerLabels ==
  { <<"d","a","t","e">>, <<"d","e","s","c","r","i","p","t","i","o","n">>,
    <<"a","m","o","u","n","t">>, <<"b","a","l","a","n","c","e">>,
    <<"t","r","a","n","s","a","c","t","i","o","n">>, <<"p","o","s","t","i","n","g">>,
    <<"r","e","f","e","r","e","n","c","e">> }

patternAccepts(line) ==
  /\ line.matched
  /\ Len(trim(line.description)) >= 3
  /\ toLowerCase(trim(line.description)) \notin headerLabels
  /\ line.amount # 0

patternTransaction(line, accountId) ==
  [accountId |-> accountId, postedDate |-> line.dateStr,
   description |-> trim(line.description), amount |-> line.amount, currency |-> USD,
   type |-> IF line.amount >= 0 THEN "CREDIT" ELSE "DEBIT",
   metadata |-> [extractedFromLine |-> TRUE, extractedByLLM |-> FALSE]]

RECURSIVE extractTransactionsWithPatterns(_, _)
extractTransactionsWithPatterns(lines, accountId) ==
  IF lines = <<>> THEN <<>>
  ELSE LET rest == extractTransactionsWithPatterns(Tail(lines), accountId)
       IN IF patternAccepts(Head(lines))
          THEN <<patternTransaction(Head(lines), accountId)>> \o rest
          ELSE rest

\* The content of a completion is a sequence of tokens: brackets, commas,
\* prose, and JSON values (objects, numbers, null).
Tok(t) == [tok |-> t]

\* a JSON object with the properties named in has
JsonObject(has, date, description, amount) ==
  [tok |-> "object", has |-> has, date |-> date, description |-> description,
   amount |-> amount]

JsonNumber == Tok("number")

JsonNull == Tok("null")

IndexesOf(content, t) == { i \in 1..Len(content) : content[i].tok = t }

Min(S) == CHOOSE x \in S : \A y \in S : x <= y

Max(S) == CHOOSE x \in S : \A y \in S : x >= y

\* content.match(/\[[\s\S]*\]/): the span from the first "[" to the last "]"
\* after it, or no match
jsonMatch(content) ==
  LET opens == IndexesOf(content, "[")
      closes == IndexesOf(content, "]")
  IN IF opens = {} \/ closes = {} \/ Max(closes) < Min(opens)
     THEN <<>>
     ELSE SubSeq(content, Min(opens), Max(closes))

SyntaxError == [ok |-> FALSE]

RECURSIVE parseValue(_, _), parseElements(_, _, _)
parseValue(tokens, i) ==
  IF i > Len(tokens) THEN SyntaxError
  ELSE IF tokens[i].tok \in {"object", "number", "null"}
       THEN [ok |-> TRUE, value |-> tokens[i], next |-> i + 1]
  ELSE IF tokens[i].tok = "["
       THEN IF i + 1 <= Len(tokens) /\ tokens[i + 1].tok = "]"
            THEN [ok |-> TRUE, value |-> [tok |-> "array", items |-> <<>>], next |-> i + 2]
            ELSE parseElements(tokens, i + 1, <<>>)
  ELSE SyntaxError

parseElements(tokens, i, items) ==
  LET v == parseValue(tokens, i)
  IN IF ~v.ok \/ v.next > Len(tokens) THEN SyntaxError
     ELSE IF tokens[v.next].tok = ","
          THEN parseElements(tokens, v.next + 1, Append(items, v.value))
     ELSE IF tokens[v.next].tok = "]"
          THEN [ok |-> TRUE, value |-> [tok |-> "array", items |-> Append(items, v.value)],
                next |-> v.next + 1]
     ELSE SyntaxError

\* JSON.parse: the whole text must be one value
JSONparse(tokens) ==
  LET v == parseValue(tokens, 1)
  IN IF v.ok /\ v.next = Len(tokens) + 1 THEN v ELSE SyntaxError

\* property access on a parsed value: undefined when the value has no such
\* property
HasProperty(value, name) == value.tok = "object" /\ name \in value.has

Property(value, name) == IF HasProperty(value, name) THEN value[name] ELSE Undefined

llmTransaction(txn, accountId) ==
  [accountId |-> accountId, postedDate |-> Property(txn, "date"),
   description |-> Property(txn, "description"), amount |-> Property(txn, "amount"),
   currency |-> USD,
   \* undefined >= 0 is false
   type |-> IF HasProperty(txn, "amount") /\ txn.amount >= 0 THEN "CREDIT" ELSE "DEBIT",
   metadata |-> [extractedFromLine |-> FALSE, extractedByLLM |-> TRUE]]

\* The extractor after the call to the extraction capability: response is
\* what the call did (outcome "throws" or "timeout" for a rejected call,
\* "nocontent" for a completion without message content, "ok" with the
\* content otherwise).
extractTransactionsWithLLM(openRouterClient, response, lines, accountId) ==
  LET fallback == extractTransactionsWithPatterns(lines, accountId)
  IN IF ~openRouterClient THEN fallback
     ELSE IF response.outcome \in {"throws", "timeout"} THEN fallback
     ELSE IF response.outcome = "nocontent" \/ response.content = <<>> THEN fallback
     ELSE IF jsonMatch(response.content) = <<>> THEN fallback
     ELSE LET parsed == JSONparse(jsonMatch(response.content))
          IN IF ~parsed.ok THEN fallback
             \* reading a property of null raises, which the catch turns
             \* into the fallback
             ELSE IF \E i \in 1..Len(parsed.value.items) :
                       parsed.value.items[i].tok = "null"
                  THEN fallback
             ELSE [i \in 1..Len(parsed.value.items) |->
                     llmTransaction(parsed.value.items[i], accountId)]

-----------------------------------------------------------------------------
\* Specification of the extractor: one extraction per behaviour, over every
\* completion of up to MaxTokens tokens.

MaxTokens == 3

RecordProperties == {"date", "description", "amount"}

GoodObject == JsonObject(RecordProperties, "2024-01-15", DescRent, -45670)

\* an object without any of the three properties, and one without a date
EmptyObject == JsonObject({}, Undefined, <<>>, 0)

UndatedObject == JsonObject({"description", "amount"}, Undefined, DescGym, 25000)

ContentTokens ==
  {Tok("["), Tok("]"), Tok(","), Tok("prose"), GoodObject, EmptyObject, UndatedObject,
   JsonNumber, JsonNull}

Contents == SeqUpTo(ContentTokens, MaxTokens)

Responses ==
  {[outcome |-> o, content |-> <<>>] : o \in {"throws", "timeout", "nocontent"}}
    \cup {[outcome |-> "ok", content |-> c] : c \in Contents}

StatementTexts ==
  { << LineMatch("2024-01-15", DescRent, -45670), NoMatch,
       LineMatch("2024-01-16", <<"D","a","t","e">>, 1000) >>,
    << LineMatch("2024-01-20", DescGym, 0), LineMatch("2024-01-21", DescGym, 25000) >> }

InitExtractor ==
  /\ StoresEmpty
  /\ config = AppContainerConfig
  /\ tasks = EmptyMap
  /\ calls = 0
  /\ last = [call |-> [op |-> "none"], stage |-> "none"]

ExtractCall ==
  /\ calls = 0
  /\ calls' = calls + 1
  /\ \E openRouterClient \in BOOLEAN, response \in Responses, lines \in StatementTexts :
       last' = [call |-> [op |-> "extract", openRouterClient |-> openRouterClient,
                          response |-> response, lines |-> lines],
                stage |-> "done",
                result |-> extractTransactionsWithLLM(openRouterClient, response, lines,
                                                      "acct-1")]
  /\ UNCHANGED <<stores, config, advice, tasks>>

NextExtractor == ExtractCall

SpecExtractor == InitExtractor /\ [][NextExtractor]_vars

Extracted == last.call.op = "extract" /\ last.stage = "done"

\* the completion of the last call as JSON, when it holds a JSON array
ParsedContent == JSONparse(jsonMatch(last.call.response.content))

IsRecordList(value) ==
  /\ value.tok = "array"
  /\ \A i \in 1..Len(value.items) :
       /\ value.items[i].tok = "object"
       /\ RecordProperties \subseteq value.items[i].has

MissingOrMalformed ==
  \/ ~last.call.openRouterClient
  \/ last.call.response.outcome # "ok"
  \/ last.call.response.content = <<>>
  \/ jsonMatch(last.call.response.content) = <<>>
  \/ ~ParsedContent.ok
  \/ ~IsRecordList(ParsedContent.value)

\* C21: whenever the assisted-extraction response is missing or malformed
\* (no client, a rejected or timed-out call, empty content, no JSON array,
\* unparseable JSON, or JSON that is not a list of {date, description,
\* amount} records) the extractor returns what pattern extraction returns
\* and no returned transaction carries metadata.extractedByLLM = true.
C21_MalformedFallsBack ==
  (Extracted /\ MissingOrMalformed) =>
    /\ \A i \in 1..Len(last.result) : ~last.result[i].metadata.extractedByLLM
    /\ last.result = extractTransactionsWithPatterns(last.call.lines, "acct-1")

-----------------------------------------------------------------------------
(* Specification SpecTasks: ingestStatement and deleteStatement calls in   *)
(* flight together on one container.  An ingestStatement call gives up     *)
(* control at each await, so its storage calls interleave with the other   *)
(* calls; the body of each storage method, deleteStatement included, runs  *)
(* without giving up control.                                              *)

MaxTasks == 3

\* the storage calls of ingestStatement in the order of the method body
ingestSteps == <<"verify", "map", "upsertAccount", "bulkUpsertTransactions", "saveStatement">>

\* the records ingestStatement writes
recordWrites ==
  [verify |-> "report", upsertAccount |-> "account", bulkUpsertTransactions |-> "transactions",
   saveStatement |-> "statement"]

\* the writes whose order among the tasks decides what is stored
orderedWrites == {"upsertAccount", "bulkUpsertTransactions"}

\* variant: the statement is saved before the account and the transactions
stepAfterStatementFirst(pc) ==
  CASE pc = "verify" -> "map"
    [] pc = "map" -> "saveStatement"
    [] pc = "saveStatement" -> "upsertAccount"
    [] pc = "upsertAccount" -> "bulkUpsertTransactions"
    [] pc = "bulkUpsertTransactions" -> "done"

\* the position after the step at pc has returned
stepAfter(pc) ==
  CASE pc = "verify" -> "map"
    [] pc = "map" -> "upsertAccount"
    [] pc = "upsertAccount" -> "bulkUpsertTransactions"
    [] pc = "bulkUpsertTransactions" -> "saveStatement"
    [] pc = "saveStatement" -> "done"

StatementA == ParsedStatement("acct-1", "inst-1", ValidPeriod, 0, 5000, <<TxnRent("acct-1")>>)

StatementB ==
  ParsedStatement("acct-1", "inst-1", ValidPeriod, 0, 3000,
                  <<TxnRentBang("acct-1"), TxnGym("acct-1")>>)

\* does not reconcile
StatementC == ParsedStatement("acct-1", "inst-1", ValidPeriod, 0, 9000, <<TxnRent("acct-1")>>)

TaskSources ==
  { [statementId |-> "stmt-1", parse |-> Parsed(StatementA)],
    [statementId |-> "stmt-2", parse |-> Parsed(StatementB)],
    [statementId |-> "stmt-1", parse |-> Parsed(StatementC)] }

InitTasks ==
  /\ StoresEmpty
  /\ config = AppContainerConfig
  /\ tasks = EmptyMap
  /\ calls = 0
  /\ last = [call |-> [op |-> "none"], stage |-> "none"]

\* the tasks that have made the storage call named step
Made(step) == { t \in DOMAIN tasks : step \in Range(tasks[t].made) }

\* a call of ingestStatement: the extractor is called and the method waits
\* for it
StartIngest ==
  /\ calls < MaxTasks
  /\ calls' = calls + 1
  /\ \E source \in TaskSources :
       LET call == [op |-> "ingestStatement", statementId |-> source.statementId,
                    parse |-> source.parse, baseCurrency |-> USD, task |-> calls + 1]
       IN tasks' = MapSet(tasks, calls + 1,
                          [call |-> call,
                           pc |-> IF source.parse.ok THEN "verify" ELSE "failed",
                           made |-> <<>>, after |-> [step \in orderedWrites |-> {}],
                           transactions |-> <<>>, status |-> Undefined])
  /\ UNCHANGED <<stores, config, last>>

\* the next stretch of an ingestStatement call, up to its next await
IngestStep(t) ==
  LET task == tasks[t]
      parsed == task.call.parse.statement
      account == mapAccount(parsed)
      \* made: the storage calls of the task so far; after: for each store
      \* written, the tasks that had written it before
      proceed(fields) ==
        [fields EXCEPT !.pc = stepAfter(task.pc),
                       !.made = Append(task.made, task.pc),
                       !.after = IF task.pc \in orderedWrites
                                   THEN [task.after EXCEPT ![task.pc] = Made(task.pc)]
                                   ELSE task.after]
  IN
  /\ task.pc \in Range(ingestSteps)
  /\ UNCHANGED <<calls, config, advice, last>>
  /\ CASE task.pc = "verify" ->
            \E val \in {validationServiceValidate(config, parsed, task.call.statementId,
                                                  NotCalled, verifications)} :
              /\ verifications' = val.verifications
              /\ tasks' = [tasks EXCEPT ![t] =
                             IF val.threw
                               THEN [task EXCEPT !.pc = "failed",
                                                 !.made = Append(task.made, task.pc)]
                               ELSE proceed([task EXCEPT !.status = val.report.status])]
              /\ UNCHANGED <<accounts, statements, transactions, cache>>
       [] task.pc = "map" ->
            \E mapped \in {mapTransactions(parsed.transactions, account,
                                           task.call.baseCurrency, cache)} :
              /\ cache' = mapped.cache
              /\ tasks' = [tasks EXCEPT ![t] =
                             proceed([task EXCEPT !.transactions = mapped.transactions])]
              /\ UNCHANGED <<accounts, statements, transactions, verifications>>
       [] task.pc = "upsertAccount" ->
            /\ accounts' = upsertAccount(accounts, account)
            /\ tasks' = [tasks EXCEPT ![t] = proceed(task)]
            /\ UNCHANGED <<statements, transactions, verifications, cache>>
       [] task.pc = "bulkUpsertTransactions" ->
            /\ transactions' = bulkUpsertTransactions(transactions, task.transactions)
            /\ tasks' = [tasks EXCEPT ![t] = proceed(task)]
            /\ UNCHANGED <<accounts, statements, verifications, cache>>
       [] task.pc = "saveStatement" ->
            /\ statements' =
                 saveStatement(statements,
                               buildStatement(task.call.statementId, parsed, account,
                                              task.transactions, [status |-> task.status]))
            /\ tasks' = [tasks EXCEPT ![t] = proceed(task)]
            /\ UNCHANGED <<accounts, transactions, verifications, cache>>

IngestSteps == \E t \in DOMAIN tasks : IngestStep(t)

\* a call of deleteStatement: the storage method runs to its end
DeleteTask ==
  /\ calls < MaxTasks
  /\ calls' = calls + 1
  /\ \E statementId \in StatementIds :
       /\ DeleteStatement(statementId)
       /\ tasks' = MapSet(tasks, calls + 1,
                          [call |-> [op |-> "deleteStatement", statementId |-> statementId,
                                     task |-> calls + 1],
                           pc |-> "done", made |-> <<>>, after |-> [step \in orderedWrites |-> {}],
                           transactions |-> <<>>, status |-> Undefined])
  /\ UNCHANGED <<config, advice>>

NextTasks == StartIngest \/ IngestSteps \/ DeleteTask

SpecTasks == InitTasks /\ [][NextTasks]_vars

-----------------------------------------------------------------------------
(* Claims about calls in flight together.                                  *)

Ingested(t) ==
  t \in DOMAIN tasks /\ tasks[t].call.op = "ingestStatement" /\ tasks[t].pc = "done"

\* two ingestStatement calls, and no other call, have been made; both have
\* returned, and their statements are of one account
TwoIngestsDone ==
  /\ DOMAIN tasks = {1, 2}
  /\ Ingested(1) /\ Ingested(2)
  /\ tasks[1].call.parse.statement.account.accountId
       = tasks[2].call.parse.statement.account.accountId

\* of the two tasks, the one that made the storage call named step last
LaterOf(step) == CHOOSE t \in {1, 2} : (3 - t) \in tasks[t].after[step]

HashesOf(t) == { tasks[t].transactions[i].dedupeHash : i \in 1..Len(tasks[t].transactions) }

\* the task whose write of hash h was the last one
LastWriterOf(h) ==
  IF h \in HashesOf(LaterOf("bulkUpsertTransactions"))
    THEN LaterOf("bulkUpsertTransactions")
    ELSE 3 - LaterOf("bulkUpsertTransactions")

\* C22: when two ingestStatement calls for one account run concurrently and
\* both complete, then under every interleaving of their storage steps the
\* transaction store holds at most one entry per hash, holds every hash of
\* both statements with the transaction of the call that wrote the hash
\* last, and the stored account balance is the closing balance of the
\* statement whose account upsert ran last.
C22_ConcurrentIngestsMerge ==
  TwoIngestsDone =>
    /\ \A k1, k2 \in DOMAIN transactions :
         transactions[k1].dedupeHash = transactions[k2].dedupeHash => k1 = k2
    /\ \A h \in HashesOf(1) \cup HashesOf(2) :
         \E k \in DOMAIN transactions :
           /\ transactions[k].dedupeHash = h
           /\ transactions[k] = LastWritten(tasks[LastWriterOf(h)].transactions, h)
    /\ MapHas(accounts, "acct-1")
    /\ accounts["acct-1"].balance
         = tasks[LaterOf("upsertAccount")].call.parse.statement.closingBalance

\* the two calls ingested different statements sharing a hash; the account
\* upsert of the first ran after that of the second, and the transaction
\* upsert of the second after that of the first
C22_Witness ==
  /\ TwoIngestsDone
  /\ tasks[1].call.parse.statement # tasks[2].call.parse.statement
  /\ HashesOf(1) \cap HashesOf(2) # {}
  /\ LaterOf("upsertAccount") = 1
  /\ LaterOf("bulkUpsertTransactions") = 2

-----------------------------------------------------------------------------
(* Claims about the identity of stored accounts.                           *)

\* a call that upserts accounts
Upserts ==
  /\ calls' = calls + 1
  /\ last'.call.op \in {"ingestStatement", "sync"}
  /\ last'.stage = "done"

\* the (institution id, account id) pairs of the stored accounts
AccountPairs(store) == { <<store[k].institutionId, store[k].id>> : k \in DOMAIN store }

\* C23: the account store holds one logical account per (institution id,
\* external account id) pair: an upsert of an account with the same account
\* id and a different institution id does not replace the account stored
\* for the first institution.
C23_AccountPerInstitution ==
  [][Upserts => AccountPairs(accounts) \subseteq AccountPairs(accounts')]_vars


IsPrefix(s, t) == Len(s) <= Len(t) /\ \A i \in 1..Len(s) : s[i] = t[i]

IsRecordWrite(step) == step \in DOMAIN recordWrites

\* the records task t has written so far, in the order of the writes
WrittenBy(t) ==
  LET writes == SelectSeq(tasks[t].made, IsRecordWrite)
  IN [i \in 1..Len(writes) |-> recordWrites[writes[i]]]

\* C24: ingestStatement performs its steps in a fixed order: extraction,
\* then verification with the report saved, then account upsert, then bulk
\* transaction upsert, then statement save.  In every run no account,
\* transaction or statement is written before the verification report has
\* been saved, and the statement is the last record written.
C24_FixedOrder ==
  \A t \in DOMAIN tasks :
    tasks[t].call.op = "ingestStatement" =>
      /\ IsPrefix(WrittenBy(t), <<"report", "account", "transactions", "statement">>)
      /\ tasks[t].pc = "failed" => Len(WrittenBy(t)) <= 1
      /\ tasks[t].pc = "done" =>
           /\ Len(WrittenBy(t)) = 4
           /\ WrittenBy(t)[4] = "statement"

\* a call has returned after its four writes while another call has saved
\* its report and not yet upserted its account
C24_Witness ==
  \E t, u \in DOMAIN tasks :
    /\ Ingested(t)
    /\ tasks[u].call.op = "ingestStatement"
    /\ tasks[u].pc \in {"map", "upsertAccount"}
    /\ WrittenBy(u) = <<"report">>

-----------------------------------------------------------------------------
(* Claims about statements and their verification reports.                 *)

\* C25 as stated: after any sequence of ingestStatement and deleteStatement
\* calls every stored statement has a stored verification report under the
\* same statement id, and the statement's verificationStatus equals that
\* report's status.
C25_StatementMatchesReport ==
  \A id \in DOMAIN statements :
    /\ MapHas(verifications, id)
    /\ statements[id].verificationStatus = verifications[id].status

\* C25, amended: every stored statement has a stored verification report
\* under the same statement id; the statement's verificationStatus equals
\* that report's status unless the report is one that aborts ingestion
\* (FAIL with an ERROR issue), saved by a later ingestStatement call under
\* the same id that failed verification.
C25_StatementMatchesReportUnlessAborted ==
  \A id \in DOMAIN statements :
    /\ MapHas(verifications, id)
    /\ \/ statements[id].verificationStatus = verifications[id].status
       \/ validationThrows(verifications[id])

\* three calls have been made; one statement is stored and the last call,
\* an ingestion under its id, was aborted by verification, so that the
\* stored report is no longer the report of the stored statement
C25_Witness ==
  /\ last.call.op = "ingestStatement"
  /\ last.stage = "verify"
  /\ MapHas(statements, last.call.statementId)
  /\ statements[last.call.statementId].verificationStatus
       # verifications[last.call.statementId].status
  /\ Cardinality(DOMAIN statements) = 1
  /\ calls = 3

-----------------------------------------------------------------------------
(* Claims relating the verifier's duplicate check to the dedupe hash.      *)

\* the last call was an ingestion under the fallback verifier that wrote
\* its transactions
IngestedWithFallback ==
  /\ last.call.op = "ingestStatement"
  /\ last.stage = "done"
  /\ last.validation.by = "fallback"

RaisedDuplicate ==
  \E i \in 1..Len(last.validation.report.issues) :
    last.validation.report.issues[i].code = "duplicate_transaction"

\* two transactions of the ingested statement received the same hash
HashShared ==
  \E i, j \in 1..Len(last.written) :
    i < j /\ last.written[i].dedupeHash = last.written[j].dedupeHash

\* C26 as stated: the verifier's duplicate check and the ledger's dedupe key
\* agree: if the fallback verifier raises no duplicate_transaction issue for
\* a statement, all transactions of the statement receive pairwise distinct
\* dedupe hashes, so none is overwritten by another in the bulk upsert.
C26_NoIssueNoSharedHash ==
  (IngestedWithFallback /\ ~RaisedDuplicate) => ~HashShared

\* C26, amended: the two agree in one direction only.  If the fallback
\* verifier raises a duplicate_transaction issue for a statement, two
\* transactions of the statement receive the same dedupe hash; a statement
\* without such an issue can still hold transactions with one hash.
C26_IssueImpliesSharedHash ==
  (IngestedWithFallback /\ RaisedDuplicate) => HashShared

\* a statement with a repeated row has been ingested
C26_Witness ==
  /\ IngestedWithFallback
  /\ RaisedDuplicate
  /\ last.validation.report.status = "REVIEW"
  /\ Len(last.written) = 2

-----------------------------------------------------------------------------
(* Specification SpecRebase: the same statement and the same feed are      *)
(* ingested and synced under different base currencies, with rates set in  *)
(* the converter in between.  Here last is the ingestion or sync made      *)
(* last: setting a rate is not counted as a call.                          *)

MaxRebaseCalls == 3

RebaseCurrencies == {NoBase, USD, EUR}

RebaseRates == {2, 3}

RebaseFeed ==
  [accounts |-> <<ExternalAccount("acct-1", 7000), ExternalAccount("acct-2", 0)>>,
   transactions |-> <<FeedRent, FeedGym>>]

InitRebase ==
  /\ StoresEmpty
  /\ config = AppContainerConfig
  /\ tasks = EmptyMap
  /\ calls = 0
  /\ last = [call |-> [op |-> "none"], stage |-> "none"]

RebaseIngest ==
  /\ calls < MaxRebaseCalls
  /\ calls' = calls + 1
  /\ \E baseCurrency \in RebaseCurrencies :
       IngestStatement("stmt-1", Parsed(StatementB), baseCurrency, NotCalled)
  /\ UNCHANGED <<config, advice, tasks>>

RebaseSync ==
  /\ calls < MaxRebaseCalls
  /\ calls' = calls + 1
  /\ \E baseCurrency \in RebaseCurrencies : Sync(RebaseFeed, SyncWindow, baseCurrency)
  /\ UNCHANGED <<config, advice, tasks>>

RebaseSetRate ==
  /\ \E rate \in RebaseRates : cache' = setRate(cache, EUR, USD, rate, Calendar[2])
  /\ UNCHANGED <<accounts, statements, transactions, verifications, advice, config, tasks,
                 calls, last>>

NextRebase == RebaseIngest \/ RebaseSync \/ RebaseSetRate

SpecRebase == InitRebase /\ [][NextRebase]_vars

\* the digests computed from the source rows of a call, before conversion
SourceHashes(call) ==
  IF call.op = "ingestStatement"
    THEN ListedHashes(call.parse.statement)
    ELSE { buildTransactionHash(
             [accountId |-> call.feed.transactions[i].accountId,
              postedDate |-> call.feed.transactions[i].postedAt,
              amount |-> call.feed.transactions[i].amount,
              currency |-> call.feed.transactions[i].currency,
              normalizedDescription |->
                normalizeDescription(call.feed.transactions[i].description)]) :
           i \in { j \in 1..Len(call.feed.transactions) :
                     InWindow(call.feed.transactions[j], call.window) } }

WrittenHashes(written) == { written[i].dedupeHash : i \in 1..Len(written) }

\* the step runs the source of the call before again, under another base
\* currency or with another rate applied
RunsRebased ==
  /\ calls' = calls + 1
  /\ last'.stage = "done"
  /\ last'.again
  /\ \/ last'.call.baseCurrency # last.call.baseCurrency
     \/ \E i \in 1..Len(last.written) :
          last'.written[i].conversionRate # last.written[i].conversionRate

\* C27: the dedupe hash of a stored transaction is computed from its
\* pre-conversion amount and currency: ingesting or syncing the same source
\* data with a different base currency or a different cached FX rate yields
\* the same set of dedupe hashes and overwrites the stored transactions in
\* place instead of adding new ones.
C27_HashBeforeConversion ==
  [][RunsRebased =>
       /\ WrittenHashes(last'.written) = SourceHashes(last'.call)
       /\ WrittenHashes(last'.written) = WrittenHashes(last.written)
       /\ DOMAIN transactions' = DOMAIN transactions
       /\ \A h \in WrittenHashes(last'.written) :
            transactions'[h] = LastWritten(last'.written, h)]_vars

\* the statement has been ingested again with its EUR row converted at
\* another rate than before, and the stored amount of that row has changed
C27_Witness ==
  /\ last.call.op = "ingestStatement"
  /\ last.stage = "done"
  /\ last.again
  /\ last.overwrote
  /\ \E i \in 1..Len(last.written) :
       /\ last.written[i].converted
       /\ last.written[i].conversionRate = 3
       /\ transactions[last.written[i].dedupeHash].amount = 3 * (-2000)


AllReturned == \A t \in DOMAIN tasks : tasks[t].pc \in {"done", "failed"}

\* C28: under any interleaving of concurrent ingestStatement and
\* deleteStatement calls at their await points, once all calls have
\* completed every stored statement's account is present in the account
\* store.
C28_StoredStatementHasAccount ==
  AllReturned =>
    \A id \in DOMAIN statements : MapHas(accounts, statements[id].account.id)

-----------------------------------------------------------------------------
(* Specification SpecDelete: ingestions that pass or are aborted by         *)
(* verification, advice generation and deleteStatement calls, one after    *)
(* the other.                                                              *)

MaxDeleteCalls == 3

\* a recommendation of the advice engine (AdviceRecommendation)
Recommendation(id, accountId) == [id |-> id, type |-> "SAVINGS", accountId |-> accountId]

AdviceBatches ==
  { <<Recommendation("advice-1", "acct-1")>>,
    <<Recommendation("advice-1", "acct-2"), Recommendation("advice-2", "acct-1")>> }

InitDelete ==
  /\ StoresEmpty
  /\ config = AppContainerConfig
  /\ tasks = EmptyMap
  /\ calls = 0
  /\ last = [call |-> [op |-> "none"], stage |-> "none"]

IngestForDelete ==
  /\ calls < MaxDeleteCalls
  /\ calls' = calls + 1
  /\ \E id \in StatementIds, statement \in {StatementA, StatementC} :
       IngestStatement(id, Parsed(statement), USD, NotCalled)
  /\ UNCHANGED <<config, advice, tasks>>

\* AdviceService.generateAdvice: the recommendations of the engine are saved
AdviceCall ==
  /\ calls < MaxDeleteCalls
  /\ calls' = calls + 1
  /\ \E recommendations \in AdviceBatches :
       /\ advice' = saveAdviceRecommendations(advice, recommendations)
       /\ last' = [call |-> [op |-> "generateAdvice", recommendations |-> recommendations],
                   stage |-> "done"]
  /\ UNCHANGED <<accounts, statements, transactions, verifications, cache, config, tasks>>

DeleteForDelete ==
  /\ calls < MaxDeleteCalls
  /\ calls' = calls + 1
  /\ \E id \in StatementIds : DeleteStatement(id)
  /\ UNCHANGED <<config, advice, tasks>>

NextDelete == IngestForDelete \/ AdviceCall \/ DeleteForDelete

SpecDelete == InitDelete /\ [][NextDelete]_vars

\* the step is a deleteStatement call with an id under which no statement
\* is stored
DeletesAbsent ==
  /\ calls' = calls + 1
  /\ last'.call.op = "deleteStatement"
  /\ ~MapHas(statements, last'.call.statementId)

\* C29: deleteStatement called with an id for which no statement is stored
\* changes nothing: the account, statement, transaction, advice and
\* verification-report stores are all unchanged; in particular a report
\* saved by an aborted ingestion under that id is left in place.
C29_DeleteAbsentChangesNothing ==
  [][DeletesAbsent =>
       /\ accounts' = accounts
       /\ statements' = statements
       /\ transactions' = transactions
       /\ advice' = advice
       /\ verifications' = verifications]_vars

\* deleteStatement has been called with the id of an aborted ingestion
\* while recommendations were stored: the report of the aborted ingestion
\* is still stored
C29_Witness ==
  /\ last.call.op = "deleteStatement"
  /\ ~MapHas(statements, last.call.statementId)
  /\ MapHas(verifications, last.call.statementId)
  /\ verifications[last.call.statementId].status = "FAIL"
  /\ advice # EmptyMap

-----------------------------------------------------------------------------
(* Specification SpecSync: sync calls during which a collaborator may      *)
(* raise.  failure names the external account (by position, 0 for the      *)
(* fetch of the account list) and the awaited call that raises while that  *)
(* account is processed: fetchTransactions, categorize, or the first       *)
(* convert.                                                                *)

MaxSyncCalls == 2

NoFailure == [account |-> -1, stage |-> "none"]

NeedsConversion(txns, baseCurrency) ==
  \E i \in 1..Len(txns) : baseCurrency # NoBase /\ txns[i].currency # baseCurrency

\* the loop of sync up to the raise, if any: the account store, the rate
\* cache, the transactions collected, and whether the loop was left by a
\* raise.  The rows before the first conversion of an account are mapped
\* without touching the rate cache.
RECURSIVE syncLoopUntil(_, _, _, _, _, _, _, _)
syncLoopUntil(extAccounts, feed, window, baseCurrency, accountStore, rates, failure, index) ==
  IF extAccounts = <<>>
    THEN [accounts |-> accountStore, cache |-> rates, transactions |-> <<>>, threw |-> FALSE]
  ELSE LET account == syncAccount(Head(extAccounts))
           upserted == upsertAccount(accountStore, account)
           fetched == fetchTransactions(feed.transactions, account.id, window)
           raises == /\ failure.account = index
                     /\ \/ failure.stage \in {"fetchTransactions", "categorize"}
                        \/ failure.stage = "convert" /\ NeedsConversion(fetched, baseCurrency)
       IN IF raises
            THEN [accounts |-> upserted, cache |-> rates, transactions |-> <<>>,
                  threw |-> TRUE]
            ELSE LET mapped == syncTransactions(fetched, baseCurrency, rates)
                     rest == syncLoopUntil(Tail(extAccounts), feed, window, baseCurrency,
                                           upserted, mapped.cache, failure, index + 1)
                 IN [accounts |-> rest.accounts,
                     cache |-> rest.cache,
                     transactions |-> mapped.transactions \o rest.transactions,
                     threw |-> rest.threw]

\* variant: the transactions collected before the raise are persisted
SyncPersistingCollected(feed, window, baseCurrency, failure) ==
  LET call == [op |-> "sync", feed |-> feed, window |-> window,
               baseCurrency |-> baseCurrency, failure |-> failure]
  IN
  IF failure.stage = "fetchAccounts"
    THEN /\ last' = [call |-> call, stage |-> "failed", written |-> <<>>]
         /\ UNCHANGED stores
  ELSE
    \E done \in {syncLoopUntil(feed.accounts, feed, window, baseCurrency, accounts, cache,
                               failure, 1)} :
      /\ accounts' = done.accounts
      /\ cache' = done.cache
      /\ transactions' = IF Len(done.transactions) > 0
                           THEN bulkUpsertTransactions(transactions, done.transactions)
                           ELSE transactions
      /\ last' = [call |-> call, stage |-> IF done.threw THEN "failed" ELSE "done",
                  written |-> done.transactions]
      /\ UNCHANGED <<statements, verifications, advice>>

\* sync with a collaborator that may raise
SyncWithFailure(feed, window, baseCurrency, failure) ==
  LET call == [op |-> "sync", feed |-> feed, window |-> window,
               baseCurrency |-> baseCurrency, failure |-> failure]
  IN
  IF failure.stage = "fetchAccounts"
    THEN /\ last' = [call |-> call, stage |-> "failed", written |-> <<>>]
         /\ UNCHANGED stores
  ELSE
    \E done \in {syncLoopUntil(feed.accounts, feed, window, baseCurrency, accounts, cache,
                               failure, 1)} :
      /\ accounts' = done.accounts
      /\ cache' = done.cache
      /\ transactions' = IF ~done.threw /\ Len(done.transactions) > 0
                           THEN bulkUpsertTransactions(transactions, done.transactions)
                           ELSE transactions
      /\ last' = [call |-> call, stage |-> IF done.threw THEN "failed" ELSE "done",
                  written |-> IF done.threw THEN <<>> ELSE done.transactions]
      /\ UNCHANGED <<statements, verifications, advice>>

SyncFailures ==
  {NoFailure, [account |-> 0, stage |-> "fetchAccounts"]}
    \cup {[account |-> k, stage |-> s] :
            k \in 1..2, s \in {"fetchTransactions", "categorize", "convert"}}

InitSync ==
  /\ StoresEmpty
  /\ config = AppContainerConfig
  /\ tasks = EmptyMap
  /\ calls = 0
  /\ last = [call |-> [op |-> "none"], stage |-> "none"]

SyncFailingCall ==
  /\ calls < MaxSyncCalls
  /\ calls' = calls + 1
  /\ \E feed \in Feeds, baseCurrency \in BaseCurrencies, failure \in SyncFailures :
       SyncWithFailure(feed, SyncWindow, baseCurrency, failure)
  /\ UNCHANGED <<config, tasks>>

NextSync == SyncFailingCall

SpecSync == InitSync /\ [][NextSync]_vars

Syncs == calls' = calls + 1 /\ last'.call.op = "sync"

\* the external accounts of the call up to and including the one during
\* which the raise happened
ProcessedAccounts(call) ==
  { call.feed.accounts[i] :
      i \in { j \in 1..Len(call.feed.accounts) : j <= call.failure.account } }

\* C30: a sync call writes transactions all-or-nothing: they are persisted
\* in a single bulk upsert after every external account has been
\* processed, so if fetching, categorizing or converting fails for any
\* account, no transaction of that call is persisted, while the accounts
\* already upserted before the failure remain stored.
C30_SyncAllOrNothing ==
  [][Syncs =>
       /\ (/\ last'.call.failure.stage \in {"fetchAccounts", "fetchTransactions", "categorize"}
           /\ last'.call.failure.account <= Len(last'.call.feed.accounts))
            => last'.stage = "failed"
       /\ last'.stage = "failed" =>
            /\ transactions' = transactions
            /\ \A extAccount \in ProcessedAccounts(last'.call) :
                 /\ MapHas(accounts', extAccount.id)
                 /\ accounts'[extAccount.id] = syncAccount(extAccount)
       /\ last'.stage = "done" =>
            \A h \in WrittenHashes(last'.written) :
              /\ MapHas(transactions', h)
              /\ transactions'[h] = LastWritten(last'.written, h)]_vars

\* a sync was left by a raise during its second account after it had
\* collected a transaction of its first account: both accounts are stored
\* and the transaction is not
C30_Witness ==
  /\ last.call.op = "sync"
  /\ last.stage = "failed"
  /\ last.call.failure.account = 2
  /\ Len(last.call.feed.accounts) = 2
  /\ Len(fetchTransactions(last.call.feed.transactions, last.call.feed.accounts[1].id,
                           last.call.window)) > 0
  /\ DOMAIN accounts = {"acct-1", "acct-2"}
  /\ transactions = EmptyMap

=============================================================================
